---- MODULE Spec2Model ----
(***************************************************************************)
(* Middleware pipelines of mt3o/middlewares: composition of an ordered     *)
(* stack of steps into one callable (promise flavor, composeStack, and     *)
(* callback flavor, composeGenStack) and the execution of the composed     *)
(* pipeline.  Continuations are data: the closure reduceRight builds for   *)
(* position i is the record Wrap(stack[i], closure for i+1).               *)
(* The contract side: the equivalence checker areTypesEquivalent over      *)
(* schema descriptors and the stack validator validateStack.               *)
(***************************************************************************)
EXTENDS Integers, Sequences, FiniteSets, TLC

\* ------------------------------------------------------------------ bounds

\* longest stack of the single-invocation specification
MaxSteps == 3
\* longest stack of the concurrent specification
ConcSteps == 2
\* number of invocations in flight in the concurrent specification
MaxInv == 2
\* deepest nesting of object descriptors handed to the equivalence checker
MaxDepth == 2
\* the longest stack validated with a checker override
OverrideSteps == 2
\* the longest stack that is both validated and executed
DeclaredSteps == 2
\* the longest list of names requested from a registry
MaxNames == 3

\* ------------------------------------------------------------------ values

\* initial inputs handed to the composed pipeline
Inputs == {1, 2}

\* the placeholder `{}` the terminal continuation resolves to
Empty == 0

Ok(v) == [ok |-> TRUE, val |-> v]
Err(v) == [ok |-> FALSE, val |-> v]
Pending == [st |-> "pending", ok |-> TRUE, val |-> Empty]
Settled(o) == [st |-> "settled", ok |-> o.ok, val |-> o.val]

\* ------------------------------------------------------- middleware bodies
\* The bodies are the caller's code, not the engine's.  Each body is one of a
\* few shapes taken from the tests; its data transformations are injective
\* and tagged with the step's Name, so that a value delivered to the wrong
\* place is visible.

\* what step i passes to next, given its own input x
NextArgOf(i, x) == 10 * x + i
\* what step i passes to its second next call
SecondArgOf(i, x) == 10 * x
\* what a step returns from the result r of its next call
RetOf(i, r) == 10 * r + 5 + i
\* what a terminal step produces from its input x
OwnOf(i, x) == 10 * x + 5
\* the error step i throws
ErrOf(i) == 0 - i
\* what a catching step returns instead of the error
FallbackOf(i) == 0 - (10 + i)

\* promise-flavor bodies:
\*   terminal   return own(input)                       (never calls next)
\*   pass       return next(f(input))
\*   wrap       log start; r = await next(f(input)); log end; return g(r)
\*   catch      try { return await next(input') } catch { return fallback }
\*   throw      throw
\*   twice      await next(..); return await next(..)
\*   hang       await a promise that never settles
PromiseBodies == {"terminal", "pass", "wrap", "catch", "throw", "twice", "hang"}

\* callback-flavor bodies (cb is the completion callback given to next):
\*   terminal   resolve(own(input))                     (never calls next)
\*   relay      log start; next(f(input), r => { log end; resolve(g(r)) })
\*   update     resolve(own(input)); next(f(input), r => { resolve(g(r)) })
\*   silent     next(f(input), r => { log end })        (never resolves)
\*   twice      next(.., r => resolve(g(r))); next(.., r => resolve(g(r)))
\*   throw      throw
\*   quiet      return                                  (neither next nor resolve)
GenBodies == {"terminal", "relay", "update", "silent", "twice", "throw", "quiet"}

BodiesOf(fl) == IF fl = "promise" THEN PromiseBodies ELSE GenBodies

Step(i, b) == [Name |-> i, body |-> b]

\* all stacks of length n over the bodies B; the step at position i is named i
StacksOf(n, B) == {[i \in 1..n |-> Step(i, f[i])] : f \in [1..n -> B]}
\* a stack holds at most one step that calls next twice
OneTwice(s) == Cardinality({i \in DOMAIN s : s[i].body = "twice"}) <= 1
StacksUpTo(n, B) == {s \in UNION {StacksOf(m, B) : m \in 1..n} : OneTwice(s)}

\* ------------------------------------------------------------------ state

VARIABLES
    flavor,     \* "promise" (composeStack) or "gen" (composeGenStack)
    stack,      \* the middleware stack handed to the composer
    composed,   \* the continuation the composer returned, [kind |-> "none"] before
    live,       \* how many invocations the caller makes
    calls,      \* calls[k]: the call chain of the k-th invocation
    comparison, \* one call of areTypesEquivalent: its arguments and its outcome
    validation, \* one call of validateStack: its argument and its outcome
    resolution  \* one call of getFromRegistry / getGenFromRegistry

vars == <<flavor, stack, composed, live, calls, comparison, validation, resolution>>

\* no call of the checker (of the validator) is under way
NotCalled == [st |-> "none"]

\* the call chain of one invocation:
\*   acts     the activations of middleware steps, in the order they were invoked
\*   order    what the bodies logged (the tests' executionOrder)
\*   hist     what happened, with the values (ghost)
\*   result   the promise the promise-flavor pipeline returned
\*   obs      the values the caller's finalResolve was called with (callback flavor)
\*   unhandled  rejections nobody awaits (callback flavor)
Idle == [st |-> "idle", input |-> Empty, acts |-> <<>>, order |-> <<>>,
         hist |-> <<>>, result |-> Pending, obs |-> <<>>, unhandled |-> <<>>]

\* an event of the history of one invocation (ghost): activation a of step
\* `step` did e with value (ok, val); src is the activation that caused it
\* (for "next": the number of the call)
\*   invoke   a is invoked with val by activation src (0: by the entry point)
\*   next     a calls next with val, its src-th call
\*   stub     the terminal continuation is called with val by src
\*   got      the next call a awaits settles, with the outcome of src (0: the stub)
\*   settle   a returns or throws
\*   resolve  a calls its resolve callback with val
\*   cb       the completion callback of a is called with val by src
\*   final    the pipeline's promise settles / finalResolve is called, by src
Ev(e, a, step, o, src) ==
    [e |-> e, a |-> a, step |-> step, ok |-> o.ok, val |-> o.val, src |-> src]
Note(c, e, a, step, o, src) == [c EXCEPT !.hist = Append(@, Ev(e, a, step, o, src))]

\* ------------------------------------------------------------ composition

\* the initial accumulator of reduceRight: `async (_req) => ({})`
TerminalStub == [kind |-> "stub"]

\* a fold step that hands the middleware the continuation after the next one
WrapSkip(middleware, next) ==
    [kind |-> "wrap", mw |-> middleware,
     next |-> IF next.kind = "wrap" THEN next.next ELSE next]

\* a fold step that looks at the contracts: it hands the middleware the
\* terminal continuation when the next middleware's own-input contract is not
\* the next-input contract this one declares
WrapChecked(middleware, next) ==
    [kind |-> "wrap", mw |-> middleware,
     next |-> IF next.kind = "wrap" /\ middleware.NextMiddlewareArg # next.mw.MyArgType
              THEN TerminalStub ELSE next]

\* one fold step: `async (req) => await middleware(req, next)`
Wrap(middleware, next) == [kind |-> "wrap", mw |-> middleware, next |-> next]

RECURSIVE ReduceLeft(_, _, _)
\* the fold taken from the first element to the last (Array.prototype.reduce)
ReduceLeft(s, i, acc) ==
    IF i = 0 THEN acc ELSE ReduceLeft(s, i - 1, Wrap(s[Len(s) - i + 1], acc))

RECURSIVE ReduceRight(_, _, _)
\* Array.prototype.reduceRight over s[1..i], last element first
ReduceRight(s, i, acc) ==
    IF i = 0 THEN acc ELSE ReduceRight(s, i - 1, Wrap(s[i], acc))

\* composeStack(stack): the continuation for position 1
ComposeStack(s) == ReduceRight(s, Len(s), TerminalStub)

\* ------------------------------------------------- promise-flavor execution

\* a fresh activation of `middleware`, called with (x, next) by activation `by`
\* (0: by the pipeline's caller)
NewAct(middleware, next, x, by) ==
    [mw |-> middleware, next |-> next, arg |-> x, caller |-> by,
     pc |-> "start", n |-> 0, got |-> Ok(Empty), resolve |-> [owner |-> 0, call |-> 0]]

\* a wrapper that catches what the middleware throws and resolves to {}
WrapperSwallow(o) == IF o.ok THEN o ELSE Ok(Empty)

\* what the wrapper `async (req) => await middleware(req, next)` settles with,
\* given the outcome of the middleware it awaited
WrapperOutcome(o) == o

\* the promise awaited by activation `to` (0: by the pipeline's caller)
\* settles with outcome o
PDeliver(c, to, o, from) ==
    IF to = 0
    THEN [Note(c, "final", 0, 0, o, from) EXCEPT !.result = Settled(o), !.st = "settled"]
    ELSE [Note(c, "got", to, c.acts[to].mw.Name, o, from) EXCEPT
              !.acts[to].got = o, !.acts[to].pc = "resume"]

\* a call of the continuation that hands the middleware the pipeline's initial
\* request instead of the argument of the call
PCallContInitial(c, cont, x, by) ==
    IF cont.kind = "stub"
    THEN PDeliver(Note(c, "stub", 0, 0, Ok(x), by), by, Ok(Empty), 0)
    ELSE [Note(c, "invoke", Len(c.acts) + 1, cont.mw.Name, Ok(c.input), by) EXCEPT
              !.acts = Append(@, NewAct(cont.mw, cont.next, c.input, by))]

\* a call of the continuation whose terminal stub rejects instead of
\* resolving to {}
PCallContStubRejects(c, cont, x, by) ==
    IF cont.kind = "stub"
    THEN PDeliver(Note(c, "stub", 0, 0, Ok(x), by), by, Err(Empty), 0)
    ELSE [Note(c, "invoke", Len(c.acts) + 1, cont.mw.Name, Ok(x), by) EXCEPT
              !.acts = Append(@, NewAct(cont.mw, cont.next, x, by))]

\* continuation `cont` is called with x by activation `by`
PCallCont(c, cont, x, by) ==
    IF cont.kind = "stub"
    THEN PDeliver(Note(c, "stub", 0, 0, Ok(x), by), by, Ok(Empty), 0)
    ELSE [Note(c, "invoke", Len(c.acts) + 1, cont.mw.Name, Ok(x), by) EXCEPT
              !.acts = Append(@, NewAct(cont.mw, cont.next, x, by))]

\* a wrapper that calls the next continuation itself when the middleware
\* returned without calling it
PSettleFallThrough(c, a, o) ==
    IF o.ok /\ c.acts[a].n = 0 /\ c.acts[a].next.kind = "wrap"
    THEN PCallCont([Note(c, "settle", a, c.acts[a].mw.Name, o, a) EXCEPT
                        !.acts[a].pc = "await", !.acts[a].n = 1],
                   c.acts[a].next, c.acts[a].arg, a)
    ELSE PDeliver([Note(c, "settle", a, c.acts[a].mw.Name, o, a) EXCEPT
                       !.acts[a].pc = "done"],
                  c.acts[a].caller, WrapperOutcome(o), a)

\* activation a returns (o.ok) or throws (~o.ok)
PSettle(c, a, o) ==
    PDeliver([Note(c, "settle", a, c.acts[a].mw.Name, o, a) EXCEPT !.acts[a].pc = "done"],
             c.acts[a].caller, WrapperOutcome(o), a)

\* activation a runs its body up to its next await or its completion
PBodyStep(c, a) ==
    LET act == c.acts[a]
        i == act.mw.Name
        b == act.mw.body
        Log(cc, tag) == [cc EXCEPT !.order = Append(@, <<i, tag>>)]
        CallNext(cc, x) ==
            PCallCont([Note(cc, "next", a, i, Ok(x), act.n + 1) EXCEPT
                           !.acts[a].pc = "await", !.acts[a].n = @ + 1],
                      act.next, x, a)
    IN  IF act.pc = "start"
        THEN CASE b = "terminal" -> PSettle(Log(c, "run"), a, Ok(OwnOf(i, act.arg)))
               [] b = "throw" -> PSettle(Log(c, "start"), a, Err(ErrOf(i)))
               [] b = "hang" -> [Log(c, "start") EXCEPT !.acts[a].pc = "hung"]
               [] OTHER -> CallNext(Log(c, "start"), NextArgOf(i, act.arg))
        ELSE CASE b = "pass" -> PSettle(c, a, act.got)
               [] b = "wrap" ->
                    IF act.got.ok
                    THEN PSettle(Log(c, "end"), a, Ok(RetOf(i, act.got.val)))
                    ELSE PSettle(c, a, act.got)
               [] b = "catch" ->
                    IF act.got.ok
                    THEN PSettle(Log(c, "end"), a, act.got)
                    ELSE PSettle(Log(c, "caught"), a, Ok(FallbackOf(i)))
               [] b = "twice" ->
                    IF ~act.got.ok THEN PSettle(c, a, act.got)
                    ELSE IF act.n = 1 THEN CallNext(c, SecondArgOf(i, act.arg))
                    ELSE PSettle(Log(c, "end"), a, act.got)
               [] OTHER -> c

\* ------------------------------------------------ callback-flavor execution

\* a composer that folds the stack from the left, so that the last step is
\* the outermost
ComposeGenStackLeft(s) == ReduceLeft(s, Len(s), TerminalStub)

\* composeGenStack(callstack): the same fold; its wrapper is
\* `async (details, resolve) => await middleware(details, next, resolve)`
\* and its initial accumulator is again `async (_req) => ({})`
ComposeGenStack(s) == ReduceRight(s, Len(s), TerminalStub)

\* the caller's finalResolve, as a callback value
FinalResolve == [owner |-> 0, call |-> 0]
\* the completion callback activation a passes to its j-th next call
Callback(a, j) == [owner |-> a, call |-> j]

\* a wrapper that hands every middleware the caller's finalResolve
WrapperResolveFinal(resolve) == FinalResolve

\* the resolve argument the wrapper hands to the middleware, given the resolve
\* the wrapper itself was called with
WrapperResolve(resolve) == resolve

\* a continuation that serves the first call of each caller only
GCallContOnce(c, cont, x, cb, by) ==
    IF cont.kind = "stub" \/ \E b \in 1..Len(c.acts) : c.acts[b].caller = by
    THEN Note(c, "stub", 0, 0, Ok(x), by)
    ELSE [Note(c, "invoke", Len(c.acts) + 1, cont.mw.Name, Ok(x), by) EXCEPT
              !.acts = Append(@, [NewAct(cont.mw, cont.next, x, by) EXCEPT
                                      !.resolve = WrapperResolve(cb)])]

\* continuation `cont` is called with (x, cb) by activation `by`
GCallCont(c, cont, x, cb, by) ==
    IF cont.kind = "stub"
    THEN \* `async (_req) => ({})`: a promise of {} nobody reads; cb is not called
         Note(c, "stub", 0, 0, Ok(x), by)
    ELSE [Note(c, "invoke", Len(c.acts) + 1, cont.mw.Name, Ok(x), by) EXCEPT
              !.acts = Append(@, [NewAct(cont.mw, cont.next, x, by) EXCEPT
                                      !.resolve = WrapperResolve(cb)])]

RECURSIVE GResolve(_, _, _)
\* a resolve that works once: later calls are dropped, as a promise would
GResolveOnce(c, a, v) ==
    IF \E p \in 1..Len(c.hist) : c.hist[p].e = "resolve" /\ c.hist[p].a = a
    THEN Note(c, "resolve", a, c.acts[a].mw.Name, Ok(v), a)
    ELSE LET cb == c.acts[a].resolve
             c1 == Note(c, "resolve", a, c.acts[a].mw.Name, Ok(v), a)
         IN  IF cb.owner = 0
             THEN [Note(c1, "final", 0, 0, Ok(v), a) EXCEPT !.obs = Append(@, v)]
             ELSE LET o == cb.owner
                      i == c1.acts[o].mw.Name
                      b == c1.acts[o].mw.body
                      c2 == [Note(c1, "cb", o, i, Ok(v), a) EXCEPT !.acts[o].got = Ok(v)]
                  IN  IF b \in {"relay", "twice", "update"}
                      THEN GResolve(c2, o, RetOf(i, v))
                      ELSE c2

\* activation a calls its resolve with v; the callback runs synchronously,
\* and so does every resolve it makes in turn
GResolve(c, a, v) ==
    LET cb == c.acts[a].resolve
        c1 == Note(c, "resolve", a, c.acts[a].mw.Name, Ok(v), a)
    IN  IF cb.owner = 0
        THEN [Note(c1, "final", 0, 0, Ok(v), a) EXCEPT !.obs = Append(@, v)]
        ELSE LET o == cb.owner
                 i == c1.acts[o].mw.Name
                 b == c1.acts[o].mw.body
                 c2 == [Note(c1, "cb", o, i, Ok(v), a) EXCEPT !.acts[o].got = Ok(v)]
                 c3 == [c2 EXCEPT !.order = Append(@, <<i, "end">>)]
             IN  CASE b \in {"relay", "twice"} -> GResolve(c3, o, RetOf(i, v))
                   [] b = "update" -> GResolve(c2, o, RetOf(i, v))
                   [] b = "silent" -> c3
                   [] OTHER -> c2

\* a wrapper that catches what the middleware throws and hands it to the
\* caller's finalResolve
GRejectToFinal(c, a, e) ==
    [Note(Note(c, "settle", a, c.acts[a].mw.Name, Err(e), a), "final", 0, 0, Err(e), a) EXCEPT
         !.acts[a].pc = "done", !.obs = Append(@, e)]

\* the promise of activation a's body rejects; the wrapper's `await` rethrows,
\* the wrapper's own promise rejects, and nobody awaits that one
GReject(c, a, e) ==
    [Note(c, "settle", a, c.acts[a].mw.Name, Err(e), a) EXCEPT
         !.acts[a].pc = "done", !.unhandled = Append(@, e)]

\* activation a runs the next instruction of its body
GBodyStep(c, a) ==
    LET act == c.acts[a]
        i == act.mw.Name
        b == act.mw.body
        Log(cc, tag) == [cc EXCEPT !.order = Append(@, <<i, tag>>)]
        Goto(cc, pc) == [cc EXCEPT !.acts[a].pc = pc]
        CallNext(cc, x) ==
            GCallCont([Note(cc, "next", a, i, Ok(x), act.n + 1) EXCEPT !.acts[a].n = @ + 1],
                      act.next, x, Callback(a, act.n + 1), a)
    IN  IF act.pc = "start"
        THEN CASE b = "terminal" -> GResolve(Goto(Log(c, "run"), "done"), a, OwnOf(i, act.arg))
               [] b = "update" -> GResolve(Goto(Log(c, "start"), "second"), a, OwnOf(i, act.arg))
               [] b = "twice" -> CallNext(Goto(Log(c, "start"), "second"), NextArgOf(i, act.arg))
               [] b = "throw" -> GReject(Log(c, "start"), a, ErrOf(i))
               [] b = "quiet" -> Goto(Log(c, "start"), "done")
               [] OTHER -> CallNext(Goto(Log(c, "start"), "done"), NextArgOf(i, act.arg))
        ELSE CASE b = "update" -> CallNext(Goto(c, "done"), NextArgOf(i, act.arg))
               [] b = "twice" -> CallNext(Goto(c, "done"), SecondArgOf(i, act.arg))
               [] OTHER -> c

\* -------------------------------------------------------------- actions

\* a composer that folds from the right by reversing the stack in place
StackAfterReverse(s) == [i \in 1..Len(s) |-> s[Len(s) + 1 - i]]

\* the stack as the composer leaves it: `reduceRight` reads the elements from
\* the last to the first and assigns to none of them
StackAfterCompose(s) == s

\* the caller composes the stack; no step runs
Compose ==
    /\ composed.kind = "none"
    /\ composed' = IF flavor = "promise" THEN ComposeStack(stack)
                    ELSE ComposeGenStack(stack)
    /\ stack' = StackAfterCompose(stack)
    /\ UNCHANGED <<flavor, live, calls, comparison, validation, resolution>>

\* a pipeline that settles its call with {} as soon as it is called
ExecutableEager(c, cont, req) ==
    [PCallCont(c, cont, req, 0) EXCEPT !.result = Settled(Ok(Empty)), !.st = "settled"]

\* the pipeline composeStack returns, called with req: `(req) => composed(req)`
Executable(c, cont, req) == PCallCont(c, cont, req, 0)

\* the pipeline composeGenStack returns, called with (argument, apply):
\* `(argument, apply) => { void composed(argument, apply) }`
GenExecutable(c, cont, argument, apply) == GCallCont(c, cont, argument, apply, 0)

\* an invocation that continues on the chain of the first invocation while
\* that one is in flight
SharedChain(cs, k, x) ==
    IF k > 1 /\ cs[1].st = "running"
    THEN [cs[1] EXCEPT !.input = x]
    ELSE [Idle EXCEPT !.st = "running", !.input = x]

\* the call chain a call of the pipeline works on: every call of
\* `(req) => composed(req)` starts a chain of its own; nothing is kept between
\* calls in the closures the composer built
FreshChain(cs, k, x) == [Idle EXCEPT !.st = "running", !.input = x]

\* the inputs of the k-th invocation: concurrent invocations get different inputs
InputsFor(k) == IF live = 1 THEN Inputs ELSE {k}

\* the caller invokes the composed pipeline with input x
Invoke(k, x) ==
    /\ composed.kind # "none"
    /\ k <= live
    /\ x \in InputsFor(k)
    /\ calls[k].st = "idle"
    /\ \A j \in 1..(k - 1) : calls[j].st # "idle"
    /\ LET c == FreshChain(calls, k, x)
       IN  calls' = [calls EXCEPT ![k] =
                        IF flavor = "promise" THEN Executable(c, composed, x)
                        ELSE GenExecutable(c, composed, x, FinalResolve)]
    /\ UNCHANGED <<flavor, stack, composed, live, comparison, validation, resolution>>

\* an activation of a promise-flavor step starts its body
PStart(k, a) ==
    /\ flavor = "promise"
    /\ calls[k].acts[a].pc = "start"
    /\ calls' = [calls EXCEPT ![k] = PBodyStep(calls[k], a)]
    /\ UNCHANGED <<flavor, stack, composed, live, comparison, validation, resolution>>

\* an activation of a promise-flavor step resumes after its awaited next call
PResume(k, a) ==
    /\ flavor = "promise"
    /\ calls[k].acts[a].pc = "resume"
    /\ calls' = [calls EXCEPT ![k] = PBodyStep(calls[k], a)]
    /\ UNCHANGED <<flavor, stack, composed, live, comparison, validation, resolution>>

\* an activation of a callback-flavor step starts its body
GStart(k, a) ==
    /\ flavor = "gen"
    /\ calls[k].acts[a].pc = "start"
    /\ calls' = [calls EXCEPT ![k] = GBodyStep(calls[k], a)]
    /\ UNCHANGED <<flavor, stack, composed, live, comparison, validation, resolution>>

\* an activation of a callback-flavor step runs its second instruction
GSecond(k, a) ==
    /\ flavor = "gen"
    /\ calls[k].acts[a].pc = "second"
    /\ calls' = [calls EXCEPT ![k] = GBodyStep(calls[k], a)]
    /\ UNCHANGED <<flavor, stack, composed, live, comparison, validation, resolution>>

Invs == 1..MaxInv

Next ==
    \/ Compose
    \/ \E k \in Invs, x \in Inputs \cup Invs : Invoke(k, x)
    \/ \E k \in Invs : \E a \in 1..Len(calls[k].acts) : PStart(k, a)
    \/ \E k \in Invs : \E a \in 1..Len(calls[k].acts) : PResume(k, a)
    \/ \E k \in Invs : \E a \in 1..Len(calls[k].acts) : GStart(k, a)
    \/ \E k \in Invs : \E a \in 1..Len(calls[k].acts) : GSecond(k, a)

Init ==
    /\ flavor \in {"promise", "gen"}
    /\ stack \in StacksUpTo(MaxSteps, BodiesOf(flavor))
    /\ composed = [kind |-> "none"]
    /\ live = 1
    /\ calls = [k \in Invs |-> Idle]
    /\ comparison = NotCalled
    /\ validation = NotCalled
    /\ resolution = NotCalled

Spec == Init /\ [][Next]_vars

\* The promise flavor alone, with the scheduling of the job queue: a body
\* that can start, and a body whose awaited promise settled, does run.  When
\* the caller composes and invokes is the caller's business.
NextPromise ==
    \/ Compose
    \/ \E k \in Invs, x \in Inputs \cup Invs : Invoke(k, x)
    \/ \E k \in Invs : \E a \in 1..Len(calls[k].acts) : PStart(k, a)
    \/ \E k \in Invs : \E a \in 1..Len(calls[k].acts) : PResume(k, a)

InitPromise ==
    /\ flavor = "promise"
    /\ stack \in StacksUpTo(MaxSteps, PromiseBodies)
    /\ composed = [kind |-> "none"]
    /\ live = 1
    /\ calls = [k \in Invs |-> Idle]
    /\ comparison = NotCalled
    /\ validation = NotCalled
    /\ resolution = NotCalled

SpecPromise ==
    /\ InitPromise /\ [][NextPromise]_vars
    /\ WF_vars(\E k \in Invs : \E a \in 1..Len(calls[k].acts) : PStart(k, a))
    /\ WF_vars(\E k \in Invs : \E a \in 1..Len(calls[k].acts) : PResume(k, a))

\* bodies of the concurrent specification: in the callback flavor those with
\* one runnable activation at a time
ConcBodiesOf(fl) == IF fl = "promise" THEN PromiseBodies ELSE GenBodies \ {"twice"}

\* several invocations of one composed pipeline in flight
InitConc ==
    /\ flavor \in {"promise", "gen"}
    /\ stack \in StacksUpTo(ConcSteps, ConcBodiesOf(flavor))
    /\ composed = [kind |-> "none"]
    /\ live = MaxInv
    /\ calls = [k \in Invs |-> Idle]
    /\ comparison = NotCalled
    /\ validation = NotCalled
    /\ resolution = NotCalled

SpecConc == InitConc /\ [][Next]_vars

\* --------------------------------------------------------- descriptors

\* A schema descriptor as the checker sees it: the value undefined, the value
\* null, a value that is no object at all (a number, a non-empty string), or
\* an object with or without a `shape` property and with or without a `_def`
\* record.
Undefined == [tag |-> "undefined"]
Null == [tag |-> "null"]
Scalar == [tag |-> "scalar"]

\* the `shape` property: missing, present but undefined or null, or a mapping
\* of field names to descriptors (a set of [name, d] with distinct names)
NoShape == [st |-> "none"]
NullishShape == [st |-> "nullish"]
Fields(fs) == [st |-> "fields", fields |-> fs]

\* the `_def` record: missing, without a kind tag, with `typeName` (zod 3),
\* with `type` (zod 4)
NoDef == [st |-> "none"]
EmptyDef == [st |-> "empty"]
Zod3(t) == [st |-> "zod3", kind |-> t]
Zod4(t) == [st |-> "zod4", kind |-> t]

Schema(shape, def) == [tag |-> "schema", shape |-> shape, def |-> def]
\* the kind tags of the two zod versions: `typeName` and `type` values
Kinds3 == {"ZodString", "ZodNumber"}
Kinds4 == {"string", "number"}
\* z.string(), z.number(), ...
Prim3(t) == Schema(NoShape, Zod3(t))
Prim4(t) == Schema(NoShape, Zod4(t))
\* z.object({...})
Obj(fs) == Schema(Fields(fs), Zod3("ZodObject"))
Field(n, d) == [name |-> n, d |-> d]

\* malformed descriptors: no `_def`, a `_def` without a kind tag, a `shape`
\* that is no mapping
NoDefSchema == Schema(NoShape, NoDef)
NoKindSchema == Schema(NoShape, EmptyDef)
BadShapeSchema == Schema(NullishShape, Zod3("ZodObject"))

\* what a call returns: a value, or a TypeError thrown to the caller
Returned(v) == [st |-> "returned", val |-> v]
TypeError == [st |-> "threw"]

\* ------------------------------------------------------------- checker

\* both-undefined and exactly-one-undefined, for a pair with an undefined side
UndefinedRuleDocumented(a, b) ==
    IF b = Undefined THEN Returned(TRUE) ELSE Returned(FALSE)

UndefinedRuleLoose(a, b) == Returned(TRUE)

\* a rule that takes a descriptor with zero fields for an absent one
UndefinedRuleEmpty(a, b) ==
    Returned(\/ a = Undefined /\ b = Undefined
             \/ a = Undefined /\ b = Obj({})
             \/ a = Obj({}) /\ b = Undefined)

\* `a === undefined && b === undefined` returns true,
\* `(a === undefined) !== (b === undefined)` returns false
UndefinedRule(a, b) ==
    IF a = Undefined /\ b = Undefined THEN Returned(TRUE) ELSE Returned(FALSE)

\* the `_def` of a value: reading it from null throws; a number has none
DefOf(d) == IF d.tag = "schema" THEN d.def ELSE NoDef

\* a kind comparison that takes two unreadable kinds for equal
KindRuleLenient(a, b) ==
    LET ka == IF DefOf(a).st \in {"zod3", "zod4"} THEN DefOf(a).kind ELSE "none"
        kb == IF DefOf(b).st \in {"zod3", "zod4"} THEN DefOf(b).kind ELSE "none"
    IN  Returned(ka = kb)

\* a kind comparison that finds any two kinds equal
KindRuleAlways(a, b) == Returned(TRUE)

\* a kind comparison that never finds two kinds equal
KindRuleNever(a, b) == Returned(FALSE)

\* the comparison of kind tags, inside try/catch: both `typeName`s, else both
\* `type`s, else false; every TypeError on the way is caught and gives false
KindRule(a, b) ==
    IF DefOf(a).st = "zod3" /\ DefOf(b).st = "zod3"
    THEN Returned(DefOf(b).kind = DefOf(a).kind)
    ELSE IF DefOf(a).st = "zod4" /\ DefOf(b).st = "zod4"
         THEN Returned(DefOf(b).kind = DefOf(a).kind)
         ELSE Returned(FALSE)

\* `a && b`: both values are truthy
BothTruthy(a, b) == a.tag \in {"schema", "scalar"} /\ b.tag \in {"schema", "scalar"}

\* the names of a field mapping: Object.keys(shape)
Keys(shape) == {f.name : f \in shape.fields}
\* shape[key]
At(shape, key) == (CHOOSE f \in shape.fields : f.name = key).d

RECURSIVE areTypesEquivalentShared(_, _)
\* a comparison of objects that skips the fields b lacks
areTypesEquivalentShared(a, b) ==
    IF a = Undefined \/ b = Undefined THEN UndefinedRule(a, b)
    ELSE IF BothTruthy(a, b) /\ (a.tag = "scalar" \/ (a.shape.st # "none" /\ b.tag = "scalar"))
    THEN TypeError
    ELSE IF BothTruthy(a, b) /\ a.shape.st # "none" /\ b.shape.st # "none"
    THEN IF a.shape.st = "nullish" \/ b.shape.st = "nullish"
         THEN TypeError
         ELSE Returned(\A key \in Keys(a.shape) \cap Keys(b.shape) :
                           areTypesEquivalentShared(At(a.shape, key), At(b.shape, key))
                               = Returned(TRUE))
    ELSE KindRule(a, b)

RECURSIVE areTypesEquivalentSame(_, _)
\* a checker that wants the same field names on both sides
areTypesEquivalentSame(a, b) ==
    IF a = Undefined \/ b = Undefined THEN UndefinedRule(a, b)
    ELSE IF BothTruthy(a, b) /\ (a.tag = "scalar" \/ (a.shape.st # "none" /\ b.tag = "scalar"))
    THEN TypeError
    ELSE IF BothTruthy(a, b) /\ a.shape.st # "none" /\ b.shape.st # "none"
    THEN IF a.shape.st = "nullish" \/ b.shape.st = "nullish"
         THEN TypeError
         ELSE Returned(/\ Keys(a.shape) = Keys(b.shape)
                       /\ \A key \in Keys(a.shape) :
                             areTypesEquivalentSame(At(a.shape, key), At(b.shape, key))
                                 = Returned(TRUE))
    ELSE KindRule(a, b)

RECURSIVE areTypesEquivalent(_, _)
\* areTypesEquivalent(a, b).  `'shape' in a` throws on a value that is no
\* object; Object.keys throws on a shape that is undefined or null; both
\* stand before the try.  The loop over the keys of a is inside the try, so
\* that a TypeError of a recursive call gives false.
areTypesEquivalent(a, b) ==
    IF a = Undefined \/ b = Undefined THEN UndefinedRule(a, b)
    ELSE IF BothTruthy(a, b) /\ (a.tag = "scalar" \/ (a.shape.st # "none" /\ b.tag = "scalar"))
    THEN TypeError
    ELSE IF BothTruthy(a, b) /\ a.shape.st # "none" /\ b.shape.st # "none"
    THEN IF a.shape.st = "nullish" \/ b.shape.st = "nullish"
         THEN TypeError
         ELSE Returned(\A key \in Keys(a.shape) :
                           /\ key \in Keys(b.shape)
                           /\ areTypesEquivalent(At(a.shape, key), At(b.shape, key))
                                  = Returned(TRUE))
    ELSE KindRule(a, b)

\* the descriptors handed to the checker
Leaves ==
    {Undefined, Null, Scalar, NoDefSchema, NoKindSchema, BadShapeSchema}
        \cup {Prim3(t) : t \in Kinds3} \cup {Prim4(t) : t \in Kinds4}
\* what field y holds, and what field x holds besides objects
YValues == {Prim3(t) : t \in Kinds3}
XValues == YValues \cup {NoKindSchema, BadShapeSchema}
\* the object descriptors with x from xs (or without x), y from YValues (or without y)
ObjsOver(xs) ==
    {Obj(fx \cup fy) : fx \in {{}} \cup {{Field("x", d)} : d \in xs},
                       fy \in {{}} \cup {{Field("y", d)} : d \in YValues}}
RECURSIVE ObjsUpTo(_)
\* object descriptors nested up to n deep (along x)
ObjsUpTo(n) == IF n = 1 THEN ObjsOver(XValues) ELSE ObjsOver(XValues \cup ObjsUpTo(n - 1))
Descriptors == Leaves \cup ObjsUpTo(MaxDepth)

\* the pipeline side of a state in which only contracts are at work
NoPipeline ==
    /\ flavor = "promise"
    /\ stack = <<Step(1, "terminal")>>
    /\ composed = [kind |-> "none"]
    /\ live = 1
    /\ calls = [k \in 1..MaxInv |-> Idle]

\* a caller calls areTypesEquivalent(a, b)
CallEquivalent ==
    /\ comparison.st = "args"
    /\ comparison' = [st |-> "done", a |-> comparison.a, b |-> comparison.b,
                       out |-> areTypesEquivalent(comparison.a, comparison.b)]
    /\ UNCHANGED <<flavor, stack, composed, live, calls, validation, resolution>>

NextEquivalent == CallEquivalent

InitEquivalent ==
    /\ NoPipeline
    /\ \E a \in Descriptors, b \in Descriptors : comparison = [st |-> "args", a |-> a, b |-> b]
    /\ validation = NotCalled
    /\ resolution = NotCalled

SpecEquivalent == InitEquivalent /\ [][NextEquivalent]_vars

\* ----------------------------------------------------------- validator

\* the contracts a middleware declares, and its name
Declares(n, arg, nextArg, nextRet, ret) ==
    [Name |-> n, MyArgType |-> arg, NextMiddlewareArg |-> nextArg,
     NextMiddlewareReturnType |-> nextRet, MyReturnType |-> ret]

isNever(value) == value = Undefined \/ value = Null

\* `${self.Name}` in a template literal: the text of the name
NameText(n) == ToString(n)

\* a message that names the pair the other way round
ArgumentMessageNextFirst(self, next) ==
    "Types don't match between self:" \o NameText(next.Name)
        \o ".NextMiddlewareArg and next:" \o NameText(self.Name)
        \o ".MyArgType argument type"

\* the message of the input diagnostic
ArgumentMessage(self, next) ==
    "Types don't match between self:" \o NameText(self.Name)
        \o ".NextMiddlewareArg and next:" \o NameText(next.Name)
        \o ".MyArgType argument type"

\* the message of the output diagnostic
OutputMessage(self, next) ==
    "Types don't match between self:" \o NameText(self.Name)
        \o ".NextMiddlewareReturnType and next:" \o NameText(next.Name)
        \o ".MyReturnType output type"

\* the two diagnostics, `new Error(message)`; kind, self and next record which
\* push made the Error and for which pair
ArgumentError(self, next) ==
    [kind |-> "argument", self |-> self.Name, next |-> next.Name,
     message |-> ArgumentMessage(self, next)]
OutputError(self, next) ==
    [kind |-> "output", self |-> self.Name, next |-> next.Name,
     message |-> OutputMessage(self, next)]

\* the checkers a caller hands to validateStack, by name: the default of the
\* parameter `areEquivalent`, and three overrides a caller may write
\*   alwaysTrue    () => true
\*   alwaysFalse   () => false
\*   identical     (a, b) => a === b
DefaultChecker == "areTypesEquivalent"
Overrides == {"alwaysTrue", "alwaysFalse", "identical"}

\* a validator that consults areTypesEquivalent whatever checker it was given
CallDefault(areEquivalent, a, b) == areTypesEquivalent(a, b)

\* `areEquivalent(a, b)` inside validateStack: the call of the checker the
\* validator was given
Call(areEquivalent, a, b) ==
    CASE areEquivalent = DefaultChecker -> areTypesEquivalent(a, b)
      [] areEquivalent = "alwaysTrue" -> Returned(TRUE)
      [] areEquivalent = "alwaysFalse" -> Returned(FALSE)
      [] areEquivalent = "identical" -> Returned(a = b)

\* an input check with the arguments the other way round
ArgumentCheckSwapped(self, next, areEquivalent) ==
    IF isNever(self.NextMiddlewareArg)
    THEN Returned(TRUE)
    ELSE Call(areEquivalent, self.NextMiddlewareArg, next.MyArgType)

\* the input check of one pair, Returned(TRUE) when it passes or is skipped:
\* `!isNever(self.NextMiddlewareArg) && !areEquivalent(next.MyArgType, self.NextMiddlewareArg)`
ArgumentCheck(self, next, areEquivalent) ==
    IF isNever(self.NextMiddlewareArg)
    THEN Returned(TRUE)
    ELSE Call(areEquivalent, next.MyArgType, self.NextMiddlewareArg)

\* an output check that is skipped when self declares no next-output
OutputCheckOptional(self, next, areEquivalent) ==
    IF isNever(self.NextMiddlewareReturnType)
    THEN Returned(TRUE)
    ELSE Call(areEquivalent, self.NextMiddlewareReturnType, next.MyReturnType)

\* the output check of one pair:
\* `!areEquivalent(self.NextMiddlewareReturnType, next.MyReturnType)`
OutputCheck(self, next, areEquivalent) ==
    Call(areEquivalent, self.NextMiddlewareReturnType, next.MyReturnType)

\* an iteration that pushes the output diagnostic before the input diagnostic
IterationOutputFirst(errors, self, next, areEquivalent) ==
    LET arg == ArgumentCheck(self, next, areEquivalent)
        out == OutputCheck(self, next, areEquivalent)
    IN  IF arg = TypeError \/ out = TypeError THEN TypeError
        ELSE Returned(errors
                      \o (IF out.val THEN <<>> ELSE <<OutputError(self, next)>>)
                      \o (IF arg.val THEN <<>> ELSE <<ArgumentError(self, next)>>))

\* one iteration of the loop: what `errors` holds after the pair (self, next),
\* or the TypeError a check threw
Iteration(errors, self, next, areEquivalent) ==
    LET arg == ArgumentCheck(self, next, areEquivalent)
    IN  IF arg = TypeError THEN TypeError
        ELSE LET e1 == IF arg.val THEN errors ELSE Append(errors, ArgumentError(self, next))
                 out == OutputCheck(self, next, areEquivalent)
             IN  IF out = TypeError THEN TypeError
                 ELSE Returned(IF out.val THEN e1 ELSE Append(e1, OutputError(self, next)))

\* validateStack(stack, areEquivalent): the loop over the adjacent pairs
validateStack(s, areEquivalent) ==
    LET After[i \in 0..(Len(s) - 1)] ==
            IF i = 0 THEN Returned(<<>>)
            ELSE IF After[i - 1] = TypeError THEN TypeError
                 ELSE Iteration(After[i - 1].val, s[i], s[i + 1], areEquivalent)
    IN  After[Len(s) - 1]

\* the contracts of the validated stacks
SchemaA == Obj({Field("x", Prim3("ZodString"))})
SchemaB == Obj({Field("x", Prim3("ZodString")), Field("y", Prim3("ZodNumber"))})
ArgTypes == {SchemaA, SchemaB}
NextArgs == {Undefined, Null, SchemaA, SchemaB}
NextReturnTypes == {Undefined, SchemaA, NoKindSchema}
ReturnTypes == {SchemaA, NoKindSchema, BadShapeSchema}

\* The stacks of n middlewares.  What the loop never reads is the same in all
\* of them: the own contracts of the first middleware, the next contracts of
\* the last (a terminal middleware declares none).
RECURSIVE Upper(_)
\* the first k middlewares of a longer stack
Upper(k) ==
    IF k = 1
    THEN {<<Declares(1, SchemaA, na, nr, SchemaA)>> :
              na \in NextArgs, nr \in NextReturnTypes}
    ELSE {Append(u, Declares(k, d[1], d[2], d[3], d[4])) :
              u \in Upper(k - 1),
              d \in ArgTypes \X NextArgs \X NextReturnTypes \X ReturnTypes}
DeclaredStacks(n) ==
    IF n = 1
    THEN {<<Declares(1, SchemaA, Undefined, Undefined, SchemaA)>>}
    ELSE {Append(u, Declares(n, d[1], Undefined, Undefined, d[2])) :
              u \in Upper(n - 1), d \in ArgTypes \X ReturnTypes}

\* a stack that lost its last middleware
StackAfterPop(s) == SubSeq(s, 1, Len(s) - 1)

\* the stack as validateStack leaves it: the loop reads stack[i], stack[i + 1]
\* and their properties and assigns to none of them
StackAfter(s) == s

\* a caller calls validateStack(stack) or validateStack(stack, areEquivalent)
CallValidate ==
    /\ validation.st = "args"
    /\ validation' = [st |-> "done", stack |-> validation.stack,
                       checker |-> validation.checker,
                       left |-> StackAfter(validation.stack),
                       out |-> validateStack(validation.stack, validation.checker)]
    /\ UNCHANGED <<flavor, stack, composed, live, calls, comparison, resolution>>

NextValidate == CallValidate

\* validateStack(stack): the checker is the parameter's default
InitValidate ==
    /\ NoPipeline
    /\ comparison = NotCalled
    /\ resolution = NotCalled
    /\ \E n \in 1..MaxSteps : \E s \in DeclaredStacks(n) :
           validation = [st |-> "args", stack |-> s, checker |-> DefaultChecker]

SpecValidate == InitValidate /\ [][NextValidate]_vars

\* validateStack(stack, areEquivalent) with an override
InitOverride ==
    /\ NoPipeline
    /\ comparison = NotCalled
    /\ resolution = NotCalled
    /\ \E n \in 1..OverrideSteps : \E s \in DeclaredStacks(n), c \in Overrides :
           validation = [st |-> "args", stack |-> s, checker |-> c]

SpecOverride == InitOverride /\ [][NextValidate]_vars

\* ------------------------------------------- declared stacks at work
\* A middleware is a callable that also carries its contracts and its name
\* (Middleware = MiddlewareCallable & MiddlewareValidation): the validator
\* reads the contracts, the composer is handed the same objects.

\* the callable with body b and the contracts and name of d
Bodied(d, b) ==
    [Name |-> d.Name, body |-> b, MyArgType |-> d.MyArgType,
     NextMiddlewareArg |-> d.NextMiddlewareArg,
     NextMiddlewareReturnType |-> d.NextMiddlewareReturnType,
     MyReturnType |-> d.MyReturnType]

\* what a middleware at position i declares: nothing, the schema A all
\* round, or a number where its neighbours declare objects
Undeclared(i) == Declares(i, Undefined, Undefined, Undefined, Undefined)
AllA(i) == Declares(i, SchemaA, SchemaA, SchemaA, SchemaA)
Odd(i) == Declares(i, Prim3("ZodNumber"), SchemaB, SchemaB, Prim3("ZodNumber"))
DeclarationsAt(i) == {Undeclared(i), AllA(i), Odd(i)}

\* the bodies of the declared stacks
DeclaredBodies(fl) ==
    IF fl = "promise" THEN {"terminal", "wrap", "catch", "throw"}
    ELSE {"terminal", "relay", "update", "throw"}

\* the stacks of at most n middlewares with bodies and contracts
BodiedStacks(n, fl) ==
    UNION {{[i \in 1..m |-> Bodied(d[i], b[i])] :
                b \in [1..m -> DeclaredBodies(fl)],
                d \in {f \in [1..m -> UNION {DeclarationsAt(i) : i \in 1..m}] :
                           \A i \in 1..m : f[i] \in DeclarationsAt(i)}} :
           m \in 1..n}

\* the caller may validate the stack, before or after composing it, or never
NextDeclared == Next \/ CallValidate

InitDeclared ==
    /\ flavor \in {"promise", "gen"}
    /\ stack \in BodiedStacks(DeclaredSteps, flavor)
    /\ composed = [kind |-> "none"]
    /\ live = 1
    /\ calls = [k \in Invs |-> Idle]
    /\ comparison = NotCalled
    /\ validation = [st |-> "args", stack |-> stack, checker |-> DefaultChecker]
    /\ resolution = NotCalled

SpecDeclared == InitDeclared /\ [][NextDeclared]_vars

\* ------------------------------------------------------------ registry
\* A registry is an object whose keys are names and whose values are provider
\* functions; it is a sequence of entries, in the order of its keys.  The
\* provider registered under a name yields, when it is called, a promise of
\* the middleware of that name.

\* the names a caller registers and requests
Names == {"a", "b", "c"}

\* `async () => middleware`, registered under key n
Provider(n) == [kind |-> "provider", of |-> n]
\* the middleware the provider p yields when it is called
Yielded(p) == [kind |-> "middleware", Name |-> p.of]

Entry(n) == [key |-> n, value |-> Provider(n)]

RECURSIVE RegistriesOver(_)
\* the registries whose keys are the names ns, in every key order
RegistriesOver(ns) ==
    IF ns = {} THEN {<<>>}
    ELSE UNION {{Append(r, Entry(n)) : r \in RegistriesOver(ns \ {n})} : n \in ns}
Registries == UNION {RegistriesOver(ns) : ns \in SUBSET Names}

\* the requests: lists of at most MaxNames names
Requests == UNION {[1..n -> Names] : n \in 0..MaxNames}

\* `Object.keys(registry)`
Haystack(registry) == [i \in 1..Len(registry) |-> registry[i].key]
\* `haystack.includes(el)`
Includes(haystack, el) == \E i \in 1..Len(haystack) : haystack[i] = el

\* a check that reports the first missing name only
MissingFirst(names, haystack) ==
    LET all == SelectSeq(names, LAMBDA el : ~Includes(haystack, el))
    IN  IF all = <<>> THEN <<>> ELSE <<all[1]>>

\* a check that finds nothing missing
MissingNone(names, haystack) == <<>>

\* `stack.filter((el) => !haystack.includes(el))`
Missing(names, haystack) == SelectSeq(names, LAMBDA el : ~Includes(haystack, el))

RECURSIVE Join(_, _)
\* `missing.join(sep)`
Join(seq, sep) ==
    IF seq = <<>> THEN ""
    ELSE IF Len(seq) = 1 THEN seq[1]
    ELSE seq[1] \o sep \o Join(Tail(seq), sep)

\* `new Error(`Missing middlewares in registry: ${missing.join(', ')}`)`
MissingError(missing) ==
    [message |-> "Missing middlewares in registry: " \o Join(missing, ", ")]

\* `registry[el]`: the value under the key, undefined when there is none
Lookup(registry, el) ==
    IF \E i \in 1..Len(registry) : registry[i].key = el
    THEN (CHOOSE e \in {registry[i] : i \in 1..Len(registry)} : e.key = el).value
    ELSE Undefined

\* what Promise.all yields for one element: the value a promise fulfilled
\* with, and the element itself when it is no promise
Fulfilment(v) == IF v = Undefined THEN v ELSE IF v.kind = "promise" THEN v.val ELSE v
\* `await Promise.all(middlewares)`
PromiseAll(middlewares) == [i \in 1..Len(middlewares) |-> Fulfilment(middlewares[i])]

\* how far a call of an async function got
Rejected(e) == [st |-> "rejected", error |-> e]
Awaiting(ps) == [st |-> "awaiting", all |-> ps]
Fulfilled(v) == [st |-> "fulfilled", val |-> v]

\* getFromRegistry(stack, registry) up to its await
getFromRegistry(names, registry) ==
    LET haystack == Haystack(registry)
        missing == Missing(names, haystack)
    IN  IF Len(missing) > 0
        THEN Rejected(MissingError(missing))
        ELSE Awaiting([i \in 1..Len(names) |-> Lookup(registry, names[i])])

\* getGenFromRegistry(stack, registry) up to its await
getGenFromRegistry(names, registry) ==
    LET haystack == Haystack(registry)
        missing == Missing(names, haystack)
    IN  IF Len(missing) > 0
        THEN Rejected(MissingError(missing))
        ELSE Awaiting([i \in 1..Len(names) |-> Lookup(registry, names[i])])

\* a resolution that takes what it requested out of the registry
RegistryAfterTake(registry, names) ==
    SelectSeq(registry, LAMBDA e : ~Includes(names, e.key))

\* the registry as a resolution leaves it: the function reads the keys and
\* the values under the requested names, and assigns to nothing
RegistryAfter(registry, names) == registry

\* the providers the resolution has called, in call order: the callback of
\* `stack.map` is `(el) => registry[el]`, which reads the provider and does not
\* call it, and nothing else calls one
InvokedBy(names, registry) == <<>>

\* a caller calls `getFromRegistry(names, registry)` (promise flavor) or
\* `getGenFromRegistry(names, registry)` (callback flavor): the function runs
\* up to its throw or its await
CallResolve ==
    /\ resolution.st = "args"
    /\ LET out == IF flavor = "promise"
                  THEN getFromRegistry(resolution.names, resolution.registry)
                  ELSE getGenFromRegistry(resolution.names, resolution.registry)
       IN  resolution' =
               [st |-> IF out.st = "awaiting" THEN "awaiting" ELSE "done",
                names |-> resolution.names,
                registry |-> resolution.registry,
                kept |-> RegistryAfter(resolution.registry, resolution.names),
                invoked |-> InvokedBy(resolution.names, resolution.registry),
                out |-> out]
    /\ UNCHANGED <<flavor, stack, composed, live, calls, comparison, validation>>

\* the promise of Promise.all is fulfilled; the function returns what it
\* awaited and its own promise is fulfilled with that
ResumeResolve ==
    /\ resolution.st = "awaiting"
    /\ resolution' = [resolution EXCEPT !.st = "done",
                                        !.out = Fulfilled(PromiseAll(resolution.out.all))]
    /\ UNCHANGED <<flavor, stack, composed, live, calls, comparison, validation>>

NextResolve == CallResolve \/ ResumeResolve

InitResolve ==
    /\ flavor \in {"promise", "gen"}
    /\ stack = <<Step(1, "terminal")>>
    /\ composed = [kind |-> "none"]
    /\ live = 1
    /\ calls = [k \in 1..MaxInv |-> Idle]
    /\ comparison = NotCalled
    /\ validation = NotCalled
    /\ \E names \in Requests, registry \in Registries :
           resolution = [st |-> "args", names |-> names, registry |-> registry]

SpecResolve == InitResolve /\ [][NextResolve]_vars

\* ------------------------------------------------------------ properties

IsPrefix(a, b) == Len(a) <= Len(b) /\ \A p \in 1..Len(a) : a[p] = b[p]

\* the bodies of the stack, in order
BodiesOfStack(s) == [i \in 1..Len(s) |-> s[i].body]

\* how many events of kind e step i has in history h
Count(h, e, i) == Cardinality({p \in 1..Len(h) : h[p].e = e /\ h[p].step = i})

\* every step but the last logs start, awaits next once and logs end; the last
\* logs once and does not call next
IsWrapChain(s) ==
    /\ \A i \in 1..(Len(s) - 1) : s[i].body = "wrap"
    /\ s[Len(s)].body = "terminal"

\* 1-start, ..., (n-1)-start, n, (n-1)-end, ..., 1-end
NestedLog(n) ==
    [p \in 1..(2 * n - 1) |->
        IF p < n THEN <<p, "start">>
        ELSE IF p = n THEN <<n, "run">> ELSE <<2 * n - p, "end">>]

\* C1: in the promise flavor a stack of n steps, each but the last logging
\* start, awaiting next once and logging end, the last logging once, logs
\* 1-start .. n .. 1-end: at every moment the log is a prefix of that sequence,
\* and it is the whole sequence once the pipeline call has settled.
C1_StrictNesting ==
    \A k \in Invs :
        (flavor = "promise" /\ IsWrapChain(stack)) =>
            /\ IsPrefix(calls[k].order, NestedLog(Len(stack)))
            /\ calls[k].st = "settled" => calls[k].order = NestedLog(Len(stack))

C1_Witness ==
    /\ flavor = "promise" /\ IsWrapChain(stack) /\ Len(stack) >= 3
    /\ calls[1].st = "settled"
    /\ calls[1].result = Settled(Ok(RetOf(1, RetOf(2, OwnOf(3, NextArgOf(2, NextArgOf(1, calls[1].input)))))))

\* C2: in both flavors and for every body, the first event of an invocation is
\* the invocation of step 1 by the entry point; every other invocation of a
\* step is the immediate effect of a next call of an activation of the step
\* before it, which is its caller; the terminal continuation is reached only
\* by a next call of the last step; and step i+1 has been invoked exactly as
\* often as step i has called next.
C2_CallOrder ==
    \A k \in Invs :
        LET c == calls[k]
            h == c.hist
        IN  /\ h # <<>> =>
                  h[1].e = "invoke" /\ h[1].step = 1 /\ h[1].src = 0 /\ h[1].a = 1
            /\ \A p \in 2..Len(h) :
                  /\ h[p].e = "invoke" =>
                        /\ h[p - 1].e = "next"
                        /\ h[p - 1].a = h[p].src
                        /\ h[p].step = h[p - 1].step + 1
                        /\ c.acts[h[p].a].mw = stack[h[p].step]
                  /\ h[p].e = "stub" =>
                        /\ h[p - 1].e = "next"
                        /\ h[p - 1].a = h[p].src
                        /\ h[p - 1].step = Len(stack)
            /\ \A a \in 1..Len(c.acts) :
                  IF c.acts[a].caller = 0
                  THEN a = 1 /\ c.acts[a].mw = stack[1]
                  ELSE /\ c.acts[a].caller < a
                       /\ c.acts[a].mw.Name = c.acts[c.acts[a].caller].mw.Name + 1
                       /\ c.acts[c.acts[a].caller].n >= 1
            /\ \A i \in 1..(Len(stack) - 1) :
                  Count(h, "invoke", i + 1) = Count(h, "next", i)
            /\ Count(h, "invoke", 1) <= 1

C2_Witness ==
    /\ flavor = "gen" /\ Len(stack) >= 3
    /\ \E a, b \in 1..Len(calls[1].acts) :
          /\ a # b
          /\ calls[1].acts[a].mw.Name = 3 /\ calls[1].acts[b].mw.Name = 3
          /\ calls[1].acts[a].pc = "done" /\ calls[1].acts[b].pc = "done"

\* C3: in the promise flavor step 1 is invoked with the pipeline's input; a
\* step invoked by next(x) is invoked with exactly x; what a step gets from
\* awaiting next is exactly the outcome of the step it invoked; and the
\* pipeline call settles with exactly the outcome of step 1.
C3_DataFlow ==
    flavor = "promise" =>
        \A k \in Invs :
            LET c == calls[k]
                h == c.hist
            IN  /\ \A a \in 1..Len(c.acts) :
                      c.acts[a].caller = 0 => c.acts[a].arg = c.input
                /\ \A p \in 2..Len(h) :
                      /\ h[p].e = "invoke" =>
                            /\ h[p].val = h[p - 1].val
                            /\ c.acts[h[p].a].arg = h[p - 1].val
                      /\ (h[p].e = "got" /\ h[p].src # 0) =>
                            /\ h[p - 1].e = "settle"
                            /\ h[p - 1].a = h[p].src
                            /\ c.acts[h[p].src].caller = h[p].a
                            /\ h[p].ok = h[p - 1].ok /\ h[p].val = h[p - 1].val
                      /\ h[p].e = "final" =>
                            /\ h[p - 1].e = "settle"
                            /\ h[p - 1].a = 1
                            /\ h[p].ok = h[p - 1].ok /\ h[p].val = h[p - 1].val
                            /\ c.result = Settled(h[p - 1])
                /\ (c.st = "settled" /\ BodiesOfStack(stack) = <<"pass", "pass", "terminal">>) =>
                      c.result = Settled(Ok(OwnOf(3, NextArgOf(2, NextArgOf(1, c.input)))))

C3_Witness ==
    /\ flavor = "promise"
    /\ BodiesOfStack(stack) = <<"pass", "wrap", "terminal">>
    /\ calls[1].st = "settled"
    /\ calls[1].result = Settled(Ok(RetOf(2, OwnOf(3, NextArgOf(2, NextArgOf(1, calls[1].input))))))

\* the first position of the stack whose body never calls next (0: none)
NoNextBodies == {"terminal", "throw", "hang", "quiet"}
FirstShort(s) ==
    IF \E i \in 1..Len(s) : s[i].body \in NoNextBodies
    THEN CHOOSE i \in 1..Len(s) :
             /\ s[i].body \in NoNextBodies
             /\ \A j \in 1..(i - 1) : s[j].body \notin NoNextBodies
    ELSE 0

RECURSIVE ArgAt(_, _)
\* the input of step i when every step before it forwards f(input) once
ArgAt(i, x) == IF i = 1 THEN x ELSE NextArgOf(i - 1, ArgAt(i - 1, x))

RECURSIVE RelayUp(_, _, _)
\* what the caller of step 1 sees of the value v that step j+1 produced, as
\* relayed by steps j .. 1 (wrap and relay apply g, the others hand v on)
RelayUp(s, j, v) ==
    IF j = 0 THEN v
    ELSE RelayUp(s, j - 1, IF s[j].body \in {"wrap", "relay"} THEN RetOf(j, v) ELSE v)

\* no activation of the chain has anything left to run
Quiescent(c) ==
    /\ c.st # "idle"
    /\ \A a \in 1..Len(c.acts) : c.acts[a].pc \notin {"start", "resume", "second"}

\* C4: in both flavors an activation has exactly as many callees as it made
\* next calls, so a step that completes without calling next invokes nothing;
\* no step after the first position whose body never calls next is ever
\* invoked; and the caller observes what that step produced, as relayed by the
\* steps before it (stack [Double, Triple] with terminal Double yields Double's
\* result and Triple is never invoked).
C4_ShortCircuit ==
    \A k \in Invs :
        LET c == calls[k]
            i == FirstShort(stack)
            relayers == IF flavor = "promise" THEN {"pass", "wrap", "catch"} ELSE {"relay"}
        IN  /\ \A a \in 1..Len(c.acts) :
                  Cardinality({b \in 1..Len(c.acts) : c.acts[b].caller = a}) =
                      IF c.acts[a].mw.Name < Len(stack) THEN c.acts[a].n ELSE 0
            /\ i # 0 => \A a \in 1..Len(c.acts) : c.acts[a].mw.Name <= i
            /\ (/\ i # 0
                /\ stack[i].body = "terminal"
                /\ \A j \in 1..(i - 1) : stack[j].body \in relayers) =>
                  LET v == RelayUp(stack, i - 1, OwnOf(i, ArgAt(i, c.input)))
                  IN  IF flavor = "promise"
                      THEN c.st = "settled" => c.result = Settled(Ok(v))
                      ELSE /\ IsPrefix(c.obs, <<v>>)
                           /\ Quiescent(c) => c.obs = <<v>>

C4_Witness ==
    /\ flavor = "promise"
    /\ BodiesOfStack(stack) = <<"terminal", "terminal">>
    /\ calls[1].st = "settled"
    /\ calls[1].result = Settled(Ok(OwnOf(1, calls[1].input)))
    /\ Len(calls[1].acts) = 1

\* the nearest step before position k that catches (0: none)
NearestCatch(s, k) ==
    IF \E j \in 1..(k - 1) : s[j].body = "catch"
    THEN CHOOSE j \in 1..(k - 1) :
             /\ s[j].body = "catch"
             /\ \A m \in (j + 1)..(k - 1) : s[m].body # "catch"
    ELSE 0

\* C5: in the promise flavor what a step throws is what the next call of its
\* caller rejects with (if the entry point called it, what the pipeline call
\* rejects with): the composer neither catches nor replaces it.  With the
\* first step that does not call next throwing at position k, the pipeline
\* call rejects with that error when no step before k catches, and otherwise
\* resolves with the return value of the nearest catching step as relayed by
\* the steps before that one.
C5_FaultPropagation ==
    flavor = "promise" =>
        \A k \in Invs :
            LET c == calls[k]
                h == c.hist
                t == FirstShort(stack)
            IN  /\ \A p \in 1..Len(h) :
                      (h[p].e = "settle" /\ ~h[p].ok) =>
                          /\ p < Len(h)
                          /\ h[p + 1].e = IF c.acts[h[p].a].caller = 0 THEN "final" ELSE "got"
                          /\ h[p + 1].a = c.acts[h[p].a].caller
                          /\ ~h[p + 1].ok /\ h[p + 1].val = h[p].val
                /\ (t # 0 /\ stack[t].body = "throw" /\ c.st = "settled") =>
                      LET j == NearestCatch(stack, t)
                      IN  IF j = 0
                          THEN c.result = Settled(Err(ErrOf(t)))
                          ELSE c.result = Settled(Ok(RelayUp(stack, j - 1, FallbackOf(j))))

C5_Witness ==
    /\ flavor = "promise"
    /\ BodiesOfStack(stack) = <<"wrap", "catch", "throw">>
    /\ calls[1].st = "settled"
    /\ calls[1].result = Settled(Ok(RetOf(1, FallbackOf(2))))
    /\ calls[1].acts[2].got = Err(ErrOf(3))

\* the values of the events of h that satisfy the test, in order
ValsOf(h, Test(_)) == LET sel == SelectSeq(h, Test) IN [p \in 1..Len(sel) |-> sel[p].val]

\* C6: in the callback flavor the resolve handed to step 1 is the caller's
\* finalResolve, and the resolve handed to a step invoked by a next call is
\* the completion callback of that very call; finalResolve is called once per
\* resolve call of step 1, with the same value, and never otherwise.
C6_ResolveWiring ==
    flavor = "gen" =>
        \A k \in Invs :
            LET c == calls[k]
                h == c.hist
                ByFirst(e) == e.e = "resolve" /\ e.a = 1
            IN  /\ \A a \in 1..Len(c.acts) :
                      c.acts[a].caller = 0 => c.acts[a].resolve = FinalResolve
                /\ \A p \in 2..Len(h) :
                      /\ h[p].e = "invoke" =>
                            c.acts[h[p].a].resolve = Callback(h[p - 1].a, h[p - 1].src)
                      /\ h[p].e = "final" =>
                            /\ h[p - 1].e = "resolve" /\ h[p - 1].a = 1
                            /\ h[p].val = h[p - 1].val
                /\ c.obs = ValsOf(h, ByFirst)

C6_Witness ==
    /\ flavor = "gen"
    /\ BodiesOfStack(stack) = <<"silent", "relay", "terminal">>
    /\ Quiescent(calls[1])
    /\ calls[1].obs = <<>>
    /\ calls[1].acts[2].resolve = Callback(1, 1)
    /\ calls[1].acts[1].got = Ok(RetOf(2, OwnOf(3, ArgAt(3, calls[1].input))))

\* C7: in the callback flavor the listener of an activation (finalResolve, or
\* the completion callback of the next call that invoked it) observes exactly
\* the resolve calls the activation made, in order and with their values.  A
\* step that resolves v1 synchronously and v2 inside the completion callback
\* of its next call has made, once that callback has run m times, 1 + m
\* resolve calls: v1, then one v2 per run.
C7_MultipleResolve ==
    flavor = "gen" =>
        \A k \in Invs :
            LET c == calls[k]
                h == c.hist
            IN  \A a \in 1..Len(c.acts) :
                    LET Made(e) == e.e = "resolve" /\ e.a = a
                        Seen(e) == e.e \in {"final", "cb"} /\ e.src = a
                        Ran(e) == e.e = "cb" /\ e.a = a
                        i == c.acts[a].mw.Name
                    IN  /\ ValsOf(h, Seen) = ValsOf(h, Made)
                        /\ \A p \in 1..Len(h) :
                              Seen(h[p]) =>
                                  IF c.acts[a].resolve.owner = 0
                                  THEN h[p].e = "final"
                                  ELSE h[p].e = "cb" /\ h[p].a = c.acts[a].resolve.owner
                        /\ (c.acts[a].mw.body = "update" /\ c.acts[a].pc # "start") =>
                              ValsOf(h, Made) =
                                  <<OwnOf(i, c.acts[a].arg)>> \o
                                  [q \in 1..Len(ValsOf(h, Ran)) |-> RetOf(i, ValsOf(h, Ran)[q])]

C7_Witness ==
    /\ flavor = "gen"
    /\ BodiesOfStack(stack) = <<"relay", "update", "terminal">>
    /\ Quiescent(calls[1])
    /\ calls[1].obs = <<RetOf(1, OwnOf(2, ArgAt(2, calls[1].input))),
                        RetOf(1, RetOf(2, OwnOf(3, ArgAt(3, calls[1].input))))>>

\* the steps of the events of h that satisfy the test, in order
StepsOf(h, Test(_)) == LET sel == SelectSeq(h, Test) IN [p \in 1..Len(sel) |-> sel[p].step]

\* C8: in the callback flavor, once an invocation has nothing left to run,
\* every next call of the last step (which reached the terminal continuation)
\* has had its completion callback invoked with the empty placeholder.
C8_StubResolves ==
    flavor = "gen" =>
        \A k \in Invs :
            LET c == calls[k]
                h == c.hist
            IN  Quiescent(c) =>
                    \A p \in 1..Len(h) :
                        h[p].e = "stub" =>
                            \E q \in (p + 1)..Len(h) :
                                /\ h[q].e = "cb" /\ h[q].a = h[p].src
                                /\ h[q].val = Empty

\* every step but the last calls next once and resolves only inside the
\* completion callback of that call; the last resolves once
IsRelayChain(s) ==
    /\ \A i \in 1..(Len(s) - 1) : s[i].body = "relay"
    /\ s[Len(s)].body = "terminal"

Ascending(n) == [p \in 1..n |-> p]
Descending(n) == [p \in 1..n |-> n + 1 - p]

\* C9: in the callback flavor, for a stack of n steps of which every one but
\* the last calls next once and resolves only in that call's completion
\* callback and the last resolves once: the steps start in the order 1..n,
\* no step resolves before all have started, the resolve calls occur in the
\* order n..1, and finalResolve is called at most once, as the direct effect
\* of step 1's resolve and after everything else; once nothing is left to run
\* all of this has happened and finalResolve has been called exactly once.
C9_GenNesting ==
    \A k \in Invs :
        (flavor = "gen" /\ IsRelayChain(stack)) =>
            LET c == calls[k]
                h == c.hist
                n == Len(stack)
                Started(e) == e.e = "invoke"
                Resolved(e) == e.e = "resolve"
            IN  /\ IsPrefix(StepsOf(h, Started), Ascending(n))
                /\ IsPrefix(StepsOf(h, Resolved), Descending(n))
                /\ \A p, q \in 1..Len(h) :
                      (h[p].e = "resolve" /\ h[q].e = "invoke") => q < p
                /\ IsPrefix(c.order, NestedLog(n))
                /\ Len(c.obs) <= 1
                /\ \A p \in 1..Len(h) :
                      h[p].e = "final" =>
                          /\ p = Len(h) /\ p > 1
                          /\ h[p - 1].e = "resolve" /\ h[p - 1].step = 1
                /\ Quiescent(c) =>
                      /\ StepsOf(h, Started) = Ascending(n)
                      /\ StepsOf(h, Resolved) = Descending(n)
                      /\ c.order = NestedLog(n)
                      /\ c.obs = <<RelayUp(stack, n - 1, OwnOf(n, ArgAt(n, c.input)))>>

C9_Witness ==
    /\ flavor = "gen" /\ IsRelayChain(stack) /\ Len(stack) = 3
    /\ Quiescent(calls[1])
    /\ Len(calls[1].obs) = 1
    /\ calls[1].hist[Len(calls[1].hist)].e = "final"

\* the activations of a chain that have code to run
Runnable(c) == {a \in 1..Len(c.acts) : c.acts[a].pc \in {"start", "resume", "second"}}

RECURSIVE RunAlone(_, _)
\* the chain c run to the end with nothing else going on
RunAlone(fl, c) ==
    IF Runnable(c) = {} THEN c
    ELSE LET a == CHOOSE a \in Runnable(c) : TRUE
         IN  RunAlone(fl, IF fl = "promise" THEN PBodyStep(c, a) ELSE GBodyStep(c, a))

\* the invocation of the composed pipeline with input x, alone
Alone(x) ==
    LET c == [Idle EXCEPT !.st = "running", !.input = x]
    IN  RunAlone(flavor, IF flavor = "promise"
                         THEN Executable(c, composed, x)
                         ELSE GenExecutable(c, composed, x, FinalResolve))

RECURSIVE Lead(_)
\* the leading digit of a value: the input it was computed from
Lead(v) == IF v < 10 THEN v ELSE Lead(v \div 10)

\* C10: with several invocations of one composed pipeline in flight, each with
\* an input of its own and suspended at any step boundary, every invocation
\* goes through a prefix of what it does when run alone: the same steps with
\* the same inputs, the same results of its next calls, the same log and the
\* same outcome; and every value handed to a step or to a next call of an
\* invocation was computed from that invocation's own input.
C10_Independent ==
    \A k \in Invs :
        calls[k].st # "idle" =>
            LET c == calls[k]
                solo == Alone(c.input)
            IN  /\ IsPrefix(c.hist, solo.hist)
                /\ IsPrefix(c.order, solo.order)
                /\ IsPrefix(c.obs, solo.obs)
                /\ IsPrefix(c.unhandled, solo.unhandled)
                /\ Len(c.acts) <= Len(solo.acts)
                /\ \A a \in 1..Len(c.acts) :
                      /\ c.acts[a].mw = solo.acts[a].mw
                      /\ c.acts[a].arg = solo.acts[a].arg
                /\ c.st = "settled" => c.result = solo.result
                /\ Quiescent(c) => c = solo
                /\ \A p \in 1..Len(c.hist) :
                      c.hist[p].e \in {"invoke", "next", "stub"} =>
                          Lead(c.hist[p].val) = c.input

C10_Witness ==
    /\ live >= 2
    /\ flavor = "promise"
    /\ BodiesOfStack(stack) = <<"wrap", "terminal">>
    /\ calls[1].st = "running" /\ calls[2].st = "settled"
    /\ Len(calls[1].acts) = 2 /\ calls[1].acts[2].pc = "start"
    /\ calls[2].result = Settled(Ok(RetOf(1, OwnOf(2, NextArgOf(1, 2)))))

\* the validated stack and the list validateStack returned
ValidatedStack == validation.stack
Diagnostics == validation.out.val
ValidateReturned == validation.st = "done" /\ validation.out.st = "returned"

\* how often the diagnostic d is in the list errors
Times(errors, d) == Cardinality({p \in 1..Len(errors) : errors[p] = d})

\* C11: in the list validateStack returns, the input-mismatch diagnostic of
\* the pair (self, next) at positions i, i+1 is there, once, if and only if
\* self's NextMiddlewareArg is neither undefined nor null and
\* areTypesEquivalent(next.MyArgType, self.NextMiddlewareArg) is false; with
\* an absent NextMiddlewareArg there is none, whatever next declares.
C11_InputRule ==
    ValidateReturned =>
        \A i \in 1..(Len(ValidatedStack) - 1) :
            LET self == ValidatedStack[i]
                next == ValidatedStack[i + 1]
            IN  /\ Times(Diagnostics, ArgumentError(self, next)) =
                      IF /\ ~isNever(self.NextMiddlewareArg)
                         /\ areTypesEquivalent(next.MyArgType, self.NextMiddlewareArg)
                                = Returned(FALSE)
                      THEN 1 ELSE 0
                /\ self.NextMiddlewareArg \in {Undefined, Null} =>
                      Times(Diagnostics, ArgumentError(self, next)) = 0

C11_Witness ==
    /\ ValidateReturned
    /\ Len(ValidatedStack) = 3
    /\ ValidatedStack[1].NextMiddlewareArg = SchemaB
    /\ ValidatedStack[2].MyArgType = SchemaA
    /\ ValidatedStack[2].NextMiddlewareArg = SchemaA
    /\ ValidatedStack[3].MyArgType = SchemaB
    /\ Times(Diagnostics, ArgumentError(ValidatedStack[1], ValidatedStack[2])) = 0
    /\ Times(Diagnostics, ArgumentError(ValidatedStack[2], ValidatedStack[3])) = 1

\* C12: in the list validateStack returns, the output-mismatch diagnostic of
\* the pair (self, next) is there, once, if and only if
\* areTypesEquivalent(self.NextMiddlewareReturnType, next.MyReturnType) is
\* false, whether or not self declares a NextMiddlewareArg; a self without a
\* NextMiddlewareReturnType before a next with a MyReturnType has one.
C12_OutputRule ==
    ValidateReturned =>
        \A i \in 1..(Len(ValidatedStack) - 1) :
            LET self == ValidatedStack[i]
                next == ValidatedStack[i + 1]
            IN  /\ Times(Diagnostics, OutputError(self, next)) =
                      IF areTypesEquivalent(self.NextMiddlewareReturnType, next.MyReturnType)
                             = Returned(FALSE)
                      THEN 1 ELSE 0
                /\ (isNever(self.NextMiddlewareReturnType) /\ ~isNever(next.MyReturnType)) =>
                      Times(Diagnostics, OutputError(self, next)) = 1

C12_Witness ==
    /\ ValidateReturned
    /\ Len(ValidatedStack) = 2
    /\ ValidatedStack[1].NextMiddlewareArg = Undefined
    /\ ValidatedStack[1].NextMiddlewareReturnType = Undefined
    /\ ValidatedStack[2].MyReturnType = SchemaA
    /\ Diagnostics = <<OutputError(ValidatedStack[1], ValidatedStack[2])>>

\* C13: the list validateStack returns is ordered by the position of the
\* pair, and within a pair the input-mismatch diagnostic stands before the
\* output-mismatch diagnostic; a stack of two in which neither the input pair
\* nor the output pair matches gives exactly the two, input first.
C13_Ordering ==
    ValidateReturned =>
        /\ \A p, q \in 1..Len(Diagnostics) :
              p < q =>
                  \/ Diagnostics[p].self < Diagnostics[q].self
                  \/ /\ Diagnostics[p].self = Diagnostics[q].self
                     /\ Diagnostics[p].kind = "argument"
                     /\ Diagnostics[q].kind = "output"
        /\ \A p \in 1..Len(Diagnostics) : Diagnostics[p].next = Diagnostics[p].self + 1
        /\ Len(ValidatedStack) = 2 =>
              LET self == ValidatedStack[1]
                  next == ValidatedStack[2]
              IN  (/\ ~isNever(self.NextMiddlewareArg)
                   /\ areTypesEquivalent(next.MyArgType, self.NextMiddlewareArg)
                          = Returned(FALSE)
                   /\ areTypesEquivalent(self.NextMiddlewareReturnType, next.MyReturnType)
                          = Returned(FALSE)) =>
                      Diagnostics = <<ArgumentError(self, next), OutputError(self, next)>>

C13_Witness ==
    /\ ValidateReturned
    /\ Len(ValidatedStack) = 3
    /\ Diagnostics = <<ArgumentError(ValidatedStack[1], ValidatedStack[2]),
                       OutputError(ValidatedStack[1], ValidatedStack[2]),
                       ArgumentError(ValidatedStack[2], ValidatedStack[3]),
                       OutputError(ValidatedStack[2], ValidatedStack[3])>>

\* every adjacent pair declares the identical descriptor on both sides
Matched(s) ==
    \A i \in 1..(Len(s) - 1) :
        /\ s[i].NextMiddlewareArg = s[i + 1].MyArgType
        /\ s[i].NextMiddlewareReturnType = s[i + 1].MyReturnType

RECURSIVE Readable(_)
\* a descriptor the checker can read: undefined, a primitive with a kind tag,
\* an object with a mapping of fields that are readable
Readable(d) ==
    \/ d = Undefined
    \/ /\ d.tag = "schema"
       /\ \/ d.shape.st = "none" /\ d.def.st \in {"zod3", "zod4"}
          \/ d.shape.st = "fields" /\ \A f \in d.shape.fields : Readable(f.d)

\* C14, as stated: for a stack in which every adjacent pair declares the
\* identical descriptor for next-input and own-input and for next-output and
\* own-output, validateStack returns the empty list.
C14_MatchedEmpty ==
    (validation.st = "done" /\ Matched(ValidatedStack)) =>
        validation.out = Returned(<<>>)

\* C14, amended: for a stack in which every adjacent pair declares the
\* identical descriptor on both sides and these descriptors are readable
\* (undefined, a primitive with a kind tag, an object with a mapping of
\* readable fields), validateStack returns the empty list.
C14_MatchedReadableEmpty ==
    (/\ validation.st = "done"
     /\ Matched(ValidatedStack)
     /\ \A i \in 1..(Len(ValidatedStack) - 1) :
           /\ Readable(ValidatedStack[i].NextMiddlewareArg)
           /\ Readable(ValidatedStack[i].NextMiddlewareReturnType)) =>
        validation.out = Returned(<<>>)

C14_Witness ==
    /\ validation.st = "done"
    /\ Len(ValidatedStack) = 3
    /\ Matched(ValidatedStack)
    /\ ValidatedStack[1].NextMiddlewareArg = SchemaB
    /\ ValidatedStack[2].NextMiddlewareReturnType = SchemaA
    /\ validation.out = Returned(<<>>)

\* C15: validateStack returns a list for every stack, whatever the contracts
\* are: absent, mismatched or malformed; it never throws.
C15_NeverThrows ==
    validation.st = "done" => validation.out.st = "returned"

\* the call of the checker has come back, with a value or a TypeError
Compared == comparison.st = "done"

\* introspection of d fails at the top: no object, no `_def`, no kind tag in
\* it, or a `shape` that is no mapping
Malformed(d) ==
    \/ d \in {Null, Scalar}
    \/ /\ d.tag = "schema"
       /\ \/ d.shape.st = "nullish"
          \/ d.shape.st = "none" /\ d.def.st \in {"none", "empty"}

\* C16: areTypesEquivalent returns a boolean for every pair of arguments,
\* malformed descriptors included, and returns false when one of the two
\* arguments is malformed.
C16_NeverRaises ==
    Compared =>
        /\ comparison.out.st = "returned"
        /\ (Malformed(comparison.a) \/ Malformed(comparison.b)) =>
              comparison.out = Returned(FALSE)

IsObject(d) == d.tag = "schema" /\ d.shape.st = "fields"

RECURSIVE Superset(_, _)
\* b has every field of a, with an equivalent descriptor, at every depth; what
\* is no object is handed to the checker
Superset(a, b) ==
    IF IsObject(a) /\ IsObject(b)
    THEN \A f \in a.shape.fields :
             \E g \in b.shape.fields : g.name = f.name /\ Superset(f.d, g.d)
    ELSE areTypesEquivalent(a, b) = Returned(TRUE)

\* C19: for two object descriptors a and b areTypesEquivalent(a, b) is true
\* if and only if every field name of a is a field name of b and the two
\* descriptors of the field are equivalent, at every nesting depth; fields of
\* b alone do not count.  With A = {x} and B = {x, y}: (A, B) is true and
\* (B, A) is false.
C19_SupersetRule ==
    Compared =>
        /\ (IsObject(comparison.a) /\ IsObject(comparison.b)) =>
              comparison.out = Returned(Superset(comparison.a, comparison.b))
        /\ (comparison.a = SchemaA /\ comparison.b = SchemaB) =>
              comparison.out = Returned(TRUE)
        /\ (comparison.a = SchemaB /\ comparison.b = SchemaA) =>
              comparison.out = Returned(FALSE)

C19_Witness ==
    /\ Compared
    /\ comparison.a = Obj({Field("x", SchemaA)})
    /\ comparison.b = Obj({Field("x", SchemaB), Field("y", Prim3("ZodNumber"))})
    /\ comparison.out = Returned(TRUE)

\* the kind tag d reports, "" when it has none to read (a typeName is read
\* as a typeName and a type as a type: the tags of the two zod versions are
\* different strings)
KindTag(d) == IF d.def.st \in {"zod3", "zod4"} THEN d.def.kind ELSE ""

\* C20: for two descriptors without a shape areTypesEquivalent(a, b) is true
\* if and only if both have a kind tag to read and the two tags are equal;
\* without a readable tag on either side it is false.  Two objects with the
\* same field name and a string on one side, a number on the other, are not
\* equivalent.
C20_PrimitiveRule ==
    Compared =>
        LET a == comparison.a
            b == comparison.b
        IN  /\ (/\ a.tag = "schema" /\ a.shape.st = "none"
                /\ b.tag = "schema" /\ b.shape.st = "none") =>
                  comparison.out =
                      Returned(KindTag(a) # "" /\ KindTag(b) # "" /\ KindTag(a) = KindTag(b))
            /\ (/\ a = Obj({Field("x", Prim3("ZodString"))})
                /\ b = Obj({Field("x", Prim3("ZodNumber"))})) =>
                  comparison.out = Returned(FALSE)

C20_Witness ==
    /\ Compared
    /\ comparison.a = Prim4("number")
    /\ comparison.b = Prim4("number")
    /\ comparison.out = Returned(TRUE)

\* what an override answers, by its own definition
Says(c, a, b) ==
    CASE c = "alwaysTrue" -> TRUE
      [] c = "alwaysFalse" -> FALSE
      [] c = "identical" -> a = b

\* C21: when validateStack is given a checker override, it returns a list, and
\* the list holds the input diagnostic of a pair exactly when self's next-input
\* contract is present and the override rejects (next's own-input, self's
\* next-input), and the output diagnostic exactly when the override rejects
\* (self's next-output, next's own-output): nothing else, whatever the default
\* checker would say or throw.  So alwaysTrue yields the empty list and
\* alwaysFalse one output diagnostic per pair plus one input diagnostic where
\* the next-input contract is present.
C21_Swappable ==
    (validation.st = "done" /\ validation.checker \in Overrides) =>
        /\ ValidateReturned
        /\ \A i \in 1..(Len(ValidatedStack) - 1) :
               LET self == ValidatedStack[i]
                   next == ValidatedStack[i + 1]
               IN  /\ Times(Diagnostics, ArgumentError(self, next)) =
                          IF /\ ~isNever(self.NextMiddlewareArg)
                             /\ ~Says(validation.checker, next.MyArgType, self.NextMiddlewareArg)
                          THEN 1 ELSE 0
                   /\ Times(Diagnostics, OutputError(self, next)) =
                          IF ~Says(validation.checker, self.NextMiddlewareReturnType, next.MyReturnType)
                          THEN 1 ELSE 0
        /\ \A p \in 1..Len(Diagnostics) :
               \E i \in 1..(Len(ValidatedStack) - 1) :
                   Diagnostics[p] \in {ArgumentError(ValidatedStack[i], ValidatedStack[i + 1]),
                                      OutputError(ValidatedStack[i], ValidatedStack[i + 1])}
        /\ validation.checker = "alwaysTrue" => Diagnostics = <<>>

\* an override decides against the default checker: the override "identical"
\* rejects a pair the default accepts (a superset) and returns where the
\* default throws
C21_Witness ==
    /\ validation.st = "done"
    /\ validation.checker = "identical"
    /\ Len(ValidatedStack) = 2
    /\ ValidatedStack[1].NextMiddlewareArg = SchemaA
    /\ ValidatedStack[2].MyArgType = SchemaB
    /\ ValidatedStack[2].MyReturnType = BadShapeSchema
    /\ validateStack(ValidatedStack, DefaultChecker) = TypeError
    /\ ValidateReturned
    /\ Times(Diagnostics, ArgumentError(ValidatedStack[1], ValidatedStack[2])) = 1

\* C28: validateStack leaves its argument as it was: after the call the stack
\* has the same length and the same steps in the same order, each with the
\* same name and the same four contract descriptors.
C28_StackUntouched ==
    validation.st = "done" =>
        /\ Len(validation.left) = Len(validation.stack)
        /\ \A i \in 1..Len(validation.stack) :
               /\ validation.left[i].Name = validation.stack[i].Name
               /\ validation.left[i].MyArgType = validation.stack[i].MyArgType
               /\ validation.left[i].NextMiddlewareArg = validation.stack[i].NextMiddlewareArg
               /\ validation.left[i].NextMiddlewareReturnType =
                      validation.stack[i].NextMiddlewareReturnType
               /\ validation.left[i].MyReturnType = validation.stack[i].MyReturnType

\* a call that found mismatches in a stack of three and returned
C28_Witness ==
    /\ ValidateReturned
    /\ Len(validation.stack) = 3
    /\ Len(Diagnostics) >= 2
    /\ validation.left = validation.stack

\* C22: every diagnostic names both steps of the failing pair and the check
\* that failed: for some adjacent pair (i, i + 1) its message is exactly
\* "Types don't match between self:<Name of step i>.NextMiddlewareArg and
\* next:<Name of step i + 1>.MyArgType argument type" and the input check of
\* that pair failed, or it is exactly "Types don't match between self:<Name of
\* step i>.NextMiddlewareReturnType and next:<Name of step i + 1>.MyReturnType
\* output type" and the output check of that pair failed.
C22_DiagnosticIdentity ==
    ValidateReturned =>
        \A p \in 1..Len(Diagnostics) :
            \E i \in 1..(Len(ValidatedStack) - 1) :
                LET self == ValidatedStack[i]
                    next == ValidatedStack[i + 1]
                    selfName == ToString(self.Name)
                    nextName == ToString(next.Name)
                IN  \/ /\ Diagnostics[p].message =
                              "Types don't match between self:" \o selfName
                                  \o ".NextMiddlewareArg and next:" \o nextName
                                  \o ".MyArgType argument type"
                       /\ ~isNever(self.NextMiddlewareArg)
                       /\ areTypesEquivalent(next.MyArgType, self.NextMiddlewareArg)
                              = Returned(FALSE)
                    \/ /\ Diagnostics[p].message =
                              "Types don't match between self:" \o selfName
                                  \o ".NextMiddlewareReturnType and next:" \o nextName
                                  \o ".MyReturnType output type"
                       /\ areTypesEquivalent(self.NextMiddlewareReturnType, next.MyReturnType)
                              = Returned(FALSE)

\* the second pair of a stack of three fails both checks, the first pair none
C22_Witness ==
    /\ ValidateReturned
    /\ Len(ValidatedStack) = 3
    /\ Len(Diagnostics) = 2
    /\ Diagnostics[1].message =
           "Types don't match between self:2.NextMiddlewareArg and next:3.MyArgType argument type"
    /\ Diagnostics[2].message =
           "Types don't match between self:2.NextMiddlewareReturnType and next:3.MyReturnType output type"

\* the keys of a registry, the requested names it lacks, and a list of names
\* written with ", " between them
KeysOf(registry) == {registry[i].key : i \in 1..Len(registry)}
RECURSIVE Lacking(_, _)
Lacking(names, keys) ==
    IF names = <<>> THEN <<>>
    ELSE (IF Head(names) \in keys THEN <<>> ELSE <<Head(names)>>) \o Lacking(Tail(names), keys)
RECURSIVE CommaList(_)
CommaList(seq) ==
    IF Len(seq) = 0 THEN ""
    ELSE IF Len(seq) = 1 THEN seq[1]
    ELSE CommaList(SubSeq(seq, 1, Len(seq) - 1)) \o ", " \o seq[Len(seq)]
Requested == resolution.names
SomeMissing == \E i \in 1..Len(Requested) : Requested[i] \notin KeysOf(resolution.registry)
ResolveCalled == resolution.st \in {"awaiting", "done"}

\* C23: when at least one requested name is not a key of the registry, the
\* resolution (either flavor) is rejected with one error whose message is
\* "Missing middlewares in registry: " followed by the missing requested
\* names, in request order, joined by ", "; names that are present are not in
\* it.  When every name is a key, it is not rejected.
C23_MissingNames ==
    ResolveCalled =>
        IF SomeMissing
        THEN /\ resolution.out.st = "rejected"
             /\ resolution.out.error.message =
                    "Missing middlewares in registry: "
                        \o CommaList(Lacking(Requested, KeysOf(resolution.registry)))
        ELSE resolution.out.st # "rejected"

\* the request [present, missing1, missing2] against a registry that holds
\* only `present`
C23_Witness ==
    /\ ResolveCalled
    /\ Requested = <<"a", "b", "c">>
    /\ KeysOf(resolution.registry) = {"a"}
    /\ resolution.out = Rejected([message |-> "Missing middlewares in registry: b, c"])

\* C24: when a requested name is missing, the rejection is the only outcome:
\* the call is over at once, no provider has been called (not those of the
\* names that are present either) and no stack, partial or not, is returned.
C24_AllOrNothing ==
    (ResolveCalled /\ SomeMissing) =>
        /\ resolution.st = "done"
        /\ resolution.out.st = "rejected"
        /\ resolution.invoked = <<>>

\* a request with a present name before and after a missing one
C24_Witness ==
    /\ resolution.st = "done"
    /\ Requested = <<"a", "c", "b">>
    /\ KeysOf(resolution.registry) = {"a", "b"}
    /\ resolution.out.st = "rejected"
    /\ resolution.invoked = <<>>

\* C25: when every requested name is a key, the resolution calls the provider
\* of each requested name and is fulfilled with a stack as long as the request
\* whose element i is the middleware the provider under names[i] yields.
C25_ResolvesMiddlewares ==
    (resolution.st = "done" /\ resolution.out.st = "fulfilled") =>
        /\ Len(resolution.out.val) = Len(Requested)
        /\ \A i \in 1..Len(Requested) :
               /\ Includes(resolution.invoked, Requested[i])
               /\ resolution.out.val[i] = Yielded(Lookup(resolution.registry, Requested[i]))

\* C26: on a successful resolution every requested provider has been started
\* by the time the resolution awaits, and the resolution settles only after
\* them.
C26_ProvidersStarted ==
    (ResolveCalled /\ ~SomeMissing) =>
        \A i \in 1..Len(Requested) : Includes(resolution.invoked, Requested[i])

\* C29: after the resolution settled, by fulfilment or by rejection, the
\* registry has the keys it had, in the same order, with the same providers
\* under them.
C29_RegistryUntouched ==
    ResolveCalled =>
        /\ KeysOf(resolution.kept) = KeysOf(resolution.registry)
        /\ Haystack(resolution.kept) = Haystack(resolution.registry)
        /\ \A n \in Names : Lookup(resolution.kept, n) = Lookup(resolution.registry, n)

\* a fulfilled resolution that requested two of the three registered names
C29_Witness ==
    /\ resolution.st = "done"
    /\ resolution.out.st = "fulfilled"
    /\ Len(Requested) = 2
    /\ Requested[1] # Requested[2]
    /\ Len(resolution.registry) = 3
    /\ resolution.kept = resolution.registry

\* C30: in the callback flavor a fault raised by the body of a step is not
\* caught by the composer and never becomes a call of finalResolve or of a
\* completion callback: each fault is one unhandled rejection, carrying the
\* error the step threw, finalResolve has only been called with values steps
\* resolved with, and no other activation learns of the fault.  In the promise
\* flavor no rejection is unhandled: a fault nobody catches is what the
\* pipeline's promise rejects with.
C30_GenFaultUnhandled ==
    \A k \in Invs :
        LET c == calls[k]
            h == c.hist
            thrown == SelectSeq(h, LAMBDA ev : ev.e = "settle" /\ ~ev.ok)
        IN  IF flavor = "gen"
            THEN /\ c.unhandled = [p \in 1..Len(thrown) |-> thrown[p].val]
                 /\ \A p \in 1..Len(h) : h[p].e \in {"final", "cb", "got", "resolve"} => h[p].ok
                 /\ c.obs = ValsOf(h, LAMBDA ev : ev.e = "final")
                 /\ \A p \in 1..Len(h) :
                        h[p].e = "final" =>
                            /\ p > 1
                            /\ h[p - 1].e = "resolve" /\ h[p - 1].val = h[p].val
                 /\ c.result = Pending
            ELSE /\ c.unhandled = <<>>
                 /\ (\E p \in 1..Len(thrown) : c.acts[thrown[p].a].caller = 0) =>
                        c.result = Settled(Err(thrown[Len(thrown)].val))

\* the second step throws after the first resolved once and called next:
\* finalResolve saw the first step's value only, and the fault is unhandled
C30_Witness ==
    /\ flavor = "gen"
    /\ BodiesOfStack(stack) = <<"update", "throw">>
    /\ calls[1].unhandled = <<ErrOf(2)>>
    /\ calls[1].obs = <<OwnOf(1, calls[1].input)>>
    /\ Quiescent(calls[1])

\* the callables of a stack, without what they declare
Callable(mw) == Step(mw.Name, mw.body)
Callables(s) == [i \in 1..Len(s) |-> Callable(s[i])]
\* the run of the pipeline composed from stack s, called with x
RunOf(s, x) ==
    LET c == [Idle EXCEPT !.st = "running", !.input = x]
    IN  RunAlone(flavor, IF flavor = "promise"
                         THEN Executable(c, ComposeStack(s), x)
                         ELSE GenExecutable(c, ComposeGenStack(s), x, FinalResolve))
RECURSIVE CallablesOf(_)
\* the callables a continuation holds, outermost first
CallablesOf(cont) ==
    IF cont.kind = "wrap" THEN <<Callable(cont.mw)>> \o CallablesOf(cont.next) ELSE <<>>
ValidationFound == validation.st = "done" /\ validation.out.st = "returned"
                       /\ validation.out.val # <<>>

\* C27: composing and executing neither run the validator nor depend on any
\* contract: the composed pipeline holds the callables of the stack in stack
\* order whatever they declare, composing leaves the validation where it was,
\* and the execution (the steps invoked, with their arguments, what they
\* log, what finalResolve gets, the outcome) is the execution of the same
\* callables with no contract declared at all, for every input, also when
\* the validator reports diagnostics for the stack.
C27_ValidationAdvisory ==
    /\ composed.kind # "none" => CallablesOf(composed) = Callables(stack)
    /\ validation.st = "done" => validation.out = validateStack(stack, DefaultChecker)
    /\ calls[1].st # "idle" =>
           LET c == calls[1]
               bare == RunOf(Callables(stack), c.input)
           IN  /\ IsPrefix(c.hist, bare.hist)
               /\ IsPrefix(c.order, bare.order)
               /\ IsPrefix(c.obs, bare.obs)
               /\ IsPrefix(c.unhandled, bare.unhandled)
               /\ Len(c.acts) <= Len(bare.acts)
               /\ \A a \in 1..Len(c.acts) :
                      /\ Callable(c.acts[a].mw) = bare.acts[a].mw
                      /\ c.acts[a].arg = bare.acts[a].arg
               /\ c.st = "settled" => c.result = bare.result
               /\ Quiescent(c) =>
                      /\ c.hist = bare.hist /\ c.order = bare.order
                      /\ c.obs = bare.obs /\ c.unhandled = bare.unhandled
                      /\ c.result = bare.result

\* a stack the validator reports two diagnostics for was composed and ran to
\* its result
C27_Witness ==
    /\ flavor = "promise"
    /\ BodiesOfStack(stack) = <<"wrap", "terminal">>
    /\ ValidationFound
    /\ Len(validation.out.val) = 2
    /\ calls[1].st = "settled"
    /\ calls[1].result = Settled(Ok(RetOf(1, OwnOf(2, NextArgOf(1, calls[1].input)))))

\* C31: in the promise flavor, when the last step of the stack calls next,
\* the call resolves to the empty placeholder {}: the caller gets a fulfilled
\* result with that value from the terminal continuation, not a rejection,
\* and no middleware step is invoked by the call (no activation is called by
\* an activation of the last step).
C31_PromiseStub ==
    flavor = "promise" =>
        \A k \in Invs :
            LET c == calls[k]
                h == c.hist
            IN  /\ \A p \in 1..Len(h) :
                       (h[p].e = "next" /\ h[p].step = Len(stack)) =>
                           /\ p + 2 <= Len(h)
                           /\ h[p + 1].e = "stub" /\ h[p + 1].src = h[p].a
                           /\ h[p + 1].val = h[p].val
                           /\ h[p + 2].e = "got" /\ h[p + 2].a = h[p].a
                           /\ h[p + 2].ok /\ h[p + 2].val = Empty /\ h[p + 2].src = 0
                /\ \A a \in 1..Len(c.acts) :
                       c.acts[a].caller # 0 => c.acts[c.acts[a].caller].mw.Name # Len(stack)
                /\ \A p \in 1..Len(h) : h[p].e = "invoke" => h[p].step \in 1..Len(stack)

\* the last of three steps calls next and returns what it got: the pipeline
\* resolves with the placeholder as relayed by the steps before
C31_Witness ==
    /\ flavor = "promise"
    /\ BodiesOfStack(stack) = <<"wrap", "wrap", "pass">>
    /\ calls[1].st = "settled"
    /\ calls[1].acts[3].got = Ok(Empty)
    /\ calls[1].result = Settled(Ok(RetOf(1, RetOf(2, Empty))))

\* the settlements of the activation the pipeline's caller invoked (step 0 of
\* the claim, the first step of the stack)
FirstSettles(c) ==
    SelectSeq(c.hist, LAMBDA ev : ev.e = "settle" /\ c.acts[ev.a].caller = 0)
\* no step of the stack awaits a promise that never settles
NoHang == \A i \in 1..Len(stack) : stack[i].body # "hang"
SomeHung == \E a \in 1..Len(calls[1].acts) : calls[1].acts[a].pc = "hung"

\* the call is settled exactly when the first step's invocation has settled,
\* with that outcome, and is pending until then
SettledWithFirst ==
    LET c == calls[1]
        fs == FirstSettles(c)
    IN  /\ c.st = "idle" => c.result = Pending
        /\ c.st = "running" => (c.result = Pending /\ fs = <<>>)
        /\ c.st = "settled" =>
               /\ Len(fs) = 1
               /\ c.result = Settled([ok |-> fs[1].ok, val |-> fs[1].val])
               /\ fs[1].step = 1
        /\ Cardinality({p \in 1..Len(c.hist) : c.hist[p].e = "final"}) = Len(fs)

\* C32: the promise-flavor pipeline call settles exactly when the invocation
\* of the first step settles, with the same outcome (its return value or its
\* fault); once a step awaits a promise that never settles the call stays
\* pending for ever, the engine settling nothing on its own; and when no step
\* hangs, a call that was made is eventually settled.
C32_SettlesWithFirst ==
    /\ []SettledWithFirst
    /\ [](SomeHung => [](calls[1].result = Pending))
    /\ (calls[1].st = "running" /\ NoHang) ~> (calls[1].st = "settled")

\* the call rejected with the fault of the third step, relayed by the first
\* step's own settlement
C32_Witness ==
    /\ flavor = "promise"
    /\ BodiesOfStack(stack) = <<"wrap", "pass", "throw">>
    /\ calls[1].st = "settled"
    /\ FirstSettles(calls[1]) # <<>>
    /\ calls[1].result = Settled(Err(ErrOf(3)))

\* the activations activation a called, in the order of the calls
CalledBy(c, a) == SelectSeq([b \in 1..Len(c.acts) |-> b], LAMBDA b : c.acts[b].caller = a)
\* the events e of activation a, in order
EventsOf(c, e, a) == SelectSeq(c.hist, LAMBDA ev : ev.e = e /\ ev.a = a)

\* C33: neither composer enforces one next call per step.  Every next call of
\* an activation of step i invokes step i + 1 anew, with the argument of that
\* call and, in the callback flavor, with the completion callback of that
\* call as its resolve; so k calls make k invocations (k calls of the terminal
\* continuation for the last step).  In the promise flavor the j-th call
\* yields the outcome of the j-th invocation; in the callback flavor a
\* completion callback runs only for an invocation its owner made.
C33_NoSingleCall ==
    \A k \in Invs :
        LET c == calls[k]
        IN  \A a \in 1..Len(c.acts) :
                LET nexts == EventsOf(c, "next", a)
                    made == CalledBy(c, a)
                    gots == EventsOf(c, "got", a)
                    cbs == EventsOf(c, "cb", a)
                IN  /\ c.acts[a].n = Len(nexts)
                    /\ IF c.acts[a].next.kind = "wrap"
                       THEN /\ Len(made) = Len(nexts)
                            /\ \A j \in 1..Len(made) :
                                   /\ c.acts[made[j]].mw = c.acts[a].next.mw
                                   /\ c.acts[made[j]].arg = nexts[j].val
                                   /\ nexts[j].src = j
                                   /\ flavor = "gen" => c.acts[made[j]].resolve = Callback(a, j)
                            /\ \A j \in 1..Len(gots) :
                                   /\ gots[j].src = made[j]
                                   /\ LET st == EventsOf(c, "settle", made[j])
                                      IN  /\ Len(st) = 1
                                          /\ st[1].ok = gots[j].ok /\ st[1].val = gots[j].val
                            /\ \A j \in 1..Len(cbs) :
                                   /\ c.acts[cbs[j].src].caller = a
                                   /\ \E p \in 1..Len(c.hist) :
                                          /\ c.hist[p].e = "resolve" /\ c.hist[p].a = cbs[j].src
                                          /\ c.hist[p].val = cbs[j].val
                       ELSE /\ made = <<>>
                            /\ Len(SelectSeq(c.hist, LAMBDA ev : ev.e = "stub" /\ ev.src = a))
                                   = Len(nexts)

\* a first step that calls next twice: the second step ran twice, with the
\* two arguments, and resolved into the two completion callbacks
C33_Witness ==
    /\ flavor = "gen"
    /\ BodiesOfStack(stack) = <<"twice", "terminal">>
    /\ Len(calls[1].acts) = 3
    /\ calls[1].acts[2].arg = NextArgOf(1, calls[1].input)
    /\ calls[1].acts[3].arg = SecondArgOf(1, calls[1].input)
    /\ calls[1].acts[3].resolve = Callback(1, 2)
    /\ Len(calls[1].obs) = 2
    /\ Quiescent(calls[1])

\* the object descriptor with an empty shape, z.object({})
EmptyObject == Obj({})

C35_ResolvedNonEmpty ==
    (resolution.st = "done" /\ resolution.out.st = "fulfilled") =>
        Len(resolution.out.val) >= 1

\* C36: areTypesEquivalent comes to an end on every pair of finite
\* descriptors, at every nesting depth, and what it returns is a boolean.
C36_TerminatesBoolean ==
    (Compared /\ {comparison.a, comparison.b} \cap {Null, Scalar} = {}) =>
        comparison.out \in {Returned(TRUE), Returned(FALSE)}

\* a descriptor without a shape property: primitive-like
IsPrimitive(d) == d.tag = "schema" /\ d.shape.st = "none"

\* C37: when both descriptors are present and exactly one of them exposes a
\* named-field shape, the other being primitive-like, areTypesEquivalent
\* returns false, in both argument orders.
C37_MixedKinds ==
    Compared =>
        /\ (IsObject(comparison.a) /\ IsPrimitive(comparison.b)) =>
               comparison.out = Returned(FALSE)
        /\ (IsPrimitive(comparison.a) /\ IsObject(comparison.b)) =>
               comparison.out = Returned(FALSE)
        /\ ((IsObject(comparison.a) /\ IsPrimitive(comparison.b))
                \/ (IsPrimitive(comparison.a) /\ IsObject(comparison.b))) =>
               areTypesEquivalent(comparison.b, comparison.a) = Returned(FALSE)

\* a string against the empty object, which every object is equivalent to
C37_Witness ==
    /\ Compared
    /\ comparison.a = Prim3("ZodString")
    /\ comparison.b = EmptyObject
    /\ comparison.out = Returned(FALSE)
    /\ areTypesEquivalent(EmptyObject, Prim3("ZodString")) = Returned(FALSE)

\* C38: areTypesEquivalent(d, d) is true for every descriptor d built only
\* from named-field shapes and primitives that report a kind tag, and for the
\* absent descriptor.
C38_Reflexive ==
    (Compared /\ comparison.a = comparison.b /\ Readable(comparison.a)) =>
        comparison.out = Returned(TRUE)

\* an object with a nested object, compared with itself
C38_Witness ==
    /\ Compared
    /\ comparison.a = Obj({Field("x", SchemaB), Field("y", Prim3("ZodNumber"))})
    /\ comparison.b = comparison.a
    /\ comparison.out = Returned(TRUE)

\* C39: on descriptors built from named-field shapes and primitives with a
\* kind tag, absent ones included, areTypesEquivalent is transitive: when
\* areTypesEquivalent(a, b) and areTypesEquivalent(b, c) are true, so is
\* areTypesEquivalent(a, c).
C39_Transitive ==
    (/\ Compared
     /\ Readable(comparison.a) /\ Readable(comparison.b)
     /\ comparison.out = Returned(TRUE)) =>
        \A c \in {d \in Descriptors : Readable(d)} :
            areTypesEquivalent(comparison.b, c) = Returned(TRUE) =>
                areTypesEquivalent(comparison.a, c) = Returned(TRUE)

\* a chain of three different objects, each a superset of the one before
C39_Witness ==
    /\ Compared
    /\ comparison.a = EmptyObject
    /\ comparison.b = SchemaA
    /\ comparison.out = Returned(TRUE)
    /\ areTypesEquivalent(SchemaA, SchemaB) = Returned(TRUE)
    /\ areTypesEquivalent(EmptyObject, SchemaB) = Returned(TRUE)

\* some step has run, or has been handed an argument, in some call
SomeStepRan == \E k \in Invs : calls[k] # Idle

\* C40: composing invokes no step: in the step that builds the pipeline, and
\* until the pipeline is invoked, no call has an activation, a log entry or a
\* result; and no step of the program, the composition and the invocations
\* included, changes the length, the order or the elements of the stack.
C40_LazyUntouched ==
    [][/\ stack' = stack
       /\ (composed.kind = "none" /\ composed'.kind # "none") =>
              (calls' = calls /\ ~SomeStepRan')
       /\ (SomeStepRan' /\ ~SomeStepRan) =>
              (composed.kind # "none" /\ \E k \in Invs :
                   calls[k].st = "idle" /\ calls'[k].st # "idle")]_vars

\* a stack of three, composed and invoked to the end of the call, still holds
\* its three steps in their order
C40_Witness ==
    /\ composed.kind # "none"
    /\ Len(stack) = 3
    /\ \A i \in 1..3 : stack[i].Name = i
    /\ calls[1].st = "settled"
    /\ Len(calls[1].order) >= 3

====
